---- MODULE Spec2Model ----
(***************************************************************************)
(* Discrete-event simulation kernel of the platelet pooling simulator:     *)
(* the event scheduler (future event list), the device state manager with  *)
(* its capacity accounting, the flow controller's completed set and the    *)
(* engine's run loop with its event handlers.                              *)
(*                                                                         *)
(* The state of one engine is the record Eng built from the variables; the *)
(* handlers are operators from an engine record to the engine record they  *)
(* leave behind, so that a handler's nested calls (schedule, transition,   *)
(* the recovery callback) compose as they do in the code.                  *)
(***************************************************************************)
EXTENDS Integers, Sequences, FiniteSets, TLC

VARIABLES
    cfg,                  \* the validated configuration (SimulationEngine.config)
    heap,                 \* EventScheduler._heap: the pending events
    current_time,         \* EventScheduler._current_time
    insertion_counter,    \* EventScheduler._insertion_counter
    registry,             \* EventScheduler._event_registry: event_id -> event
    states,               \* StateManager._states
    history,              \* StateManager._history
    active,               \* StateManager._device_capacity[d]['active_flows']
    recovery_callback,    \* StateManager._recovery_callback is set
    completed,            \* FlowController._completed
    event_count,          \* SimulationEngine._event_count
    flow_executions,      \* SimulationEngine._flow_executions
    cancelled,            \* SimulationEngine._cancelled
    paused,               \* SimulationEngine._paused
    pause_requested_time, \* SimulationEngine._pause_requested_time
    real_time_start,      \* SimulationEngine._real_time_start
    rng_calls,            \* number of values drawn from SeededRNG so far
    pc,                   \* position of the thread inside run()
    wake_at,              \* wall-clock time at which the pacing sleep returns
    fired,                \* the event popped by the last process_next
    exc,                  \* exception propagating out of the last call
    raised,               \* exceptions caught and logged by the handlers
    failures,             \* number of failures submitted from outside
    wall,                 \* the wall clock, time.time()
    twin,                 \* a second engine built from the same configuration
    ret,                  \* the last direct call on a component and its result
    detector,             \* a DeadlockDetector (no engine creates one)
    returned              \* the DeadlockInfo objects check_deadlock has returned

vars == <<cfg, heap, current_time, insertion_counter, registry, states, history,
          active, recovery_callback, completed, event_count, flow_executions,
          cancelled, paused, pause_requested_time, real_time_start, rng_calls,
          pc, wake_at, fired, exc, raised, failures, wall, twin, ret,
          detector, returned>>

(***************************************************************************)
(* Bounds of the model and constants of the program.                       *)
(***************************************************************************)
MaxDuration == 4          \* largest configured simulation duration
MaxFailures == 1          \* failures submitted from outside during one run
MaxCalls == 3             \* direct schedule calls on a scheduler under test
MaxTimestamp == 2         \* largest timestamp passed to schedule directly
MaxHistory == 3           \* transitions submitted to a state manager under test

FLOW_RETRY_DELAY_SECONDS == 1
GATE_RETRY_DELAY_SECONDS == 1
MAX_REAL_TIME_SLEEP_SECONDS == 3600

Devices == {"D1", "D2"}
Capacities == 1..2        \* with three flows a larger capacity never binds
FlowIds == {"F1", "F2", "F3"}
DeviceState == {"Idle", "Processing", "Blocked", "Failed"}
TransitionEvents == {"START_PROCESSING", "COMPLETE_PROCESSING", "FAILURE_DETECTED",
                     "BACKPRESSURE_DETECTED", "BACKPRESSURE_CLEARED", "RECOVERY_COMPLETE"}
NoExc == "none"
NoDetector == "none"
NoEvent == [timestamp |-> -1, insertion_order |-> -1, event_id |-> <<"none">>,
            callback |-> [kind |-> "none", arg |-> "none", n |-> 0]]

Max(a, b) == IF a >= b THEN a ELSE b
Min(a, b) == IF a <= b THEN a ELSE b

(***************************************************************************)
(* SeededRNG.  A seed fixes the whole sequence of values; the n-th value   *)
(* drawn with a given seed is always the same.  The stream of a seed is    *)
(* its two low bits, repeated: value n lies at the low or at the high end  *)
(* of the requested range.                                                 *)
(***************************************************************************)
Seeds == 0..3

RandomBit(seed, n) == IF n % 2 = 0 THEN seed % 2 ELSE (seed \div 2) % 2

\* an RNG that is not seeded from the configuration but from the clock
UniformFromClock(seed, n, a, b) == IF (wall + n) % 2 = 0 THEN a ELSE b

\* SeededRNG.uniform: the n-th value drawn
Uniform(seed, n, a, b) == IF RandomBit(seed, n) = 0 THEN a ELSE b

(***************************************************************************)
(* EventScheduler.                                                         *)
(***************************************************************************)
\* Event.__lt__ with insertion_order left out of the comparison
EventLtByTimestamp(a, b) == a.timestamp < b.timestamp

\* Event.__lt__ as generated by dataclass(order=True): the compared fields
\* are timestamp and insertion_order, in that order.
EventLt(a, b) ==
    \/ a.timestamp < b.timestamp
    \/ a.timestamp = b.timestamp /\ a.insertion_order < b.insertion_order

\* heap[0]: an event of the heap that no other event precedes.
HeapTop(h) == {ev \in h : \A o \in h : ~EventLt(o, ev)}

RegPut(r, id, ev) == [x \in (DOMAIN r) \cup {id} |-> IF x = id THEN ev ELSE r[x]]
RegDel(r, id) == [x \in (DOMAIN r) \ {id} |-> r[x]]
EmptyRegistry == [x \in {} |-> NoEvent]

\* schedule refusing the current time as well ("<=" for "<")
ScheduleRefusingNow(e, timestamp, event_id, callback) ==
    IF timestamp <= e.current_time
    THEN [e EXCEPT !.exc = "ValueError"]
    ELSE LET event == [timestamp |-> timestamp,
                       insertion_order |-> e.insertion_counter,
                       event_id |-> event_id,
                       callback |-> callback]
         IN [e EXCEPT !.heap = @ \cup {event},
                      !.registry = RegPut(@, event_id, event),
                      !.insertion_counter = @ + 1]

\* schedule without the test of the timestamp
ScheduleUnchecked(e, timestamp, event_id, callback) ==
    LET event == [timestamp |-> timestamp,
                  insertion_order |-> e.insertion_counter,
                  event_id |-> event_id,
                  callback |-> callback]
    IN [e EXCEPT !.heap = @ \cup {event},
                 !.registry = RegPut(@, event_id, event),
                 !.insertion_counter = @ + 1]

\* EventScheduler.schedule
Schedule(e, timestamp, event_id, callback) ==
    IF timestamp < e.current_time
    THEN [e EXCEPT !.exc = "ValueError"]
    ELSE LET event == [timestamp |-> timestamp,
                       insertion_order |-> e.insertion_counter,
                       event_id |-> event_id,
                       callback |-> callback]
         IN [e EXCEPT !.heap = @ \cup {event},
                      !.registry = RegPut(@, event_id, event),
                      !.insertion_counter = @ + 1]

\* cancel as its comment describes it: the event leaves the registry and
\* stays in the heap
CancelRegistryOnly(e, event_id) ==
    IF event_id \notin DOMAIN e.registry
    THEN e
    ELSE [e EXCEPT !.registry = RegDel(@, event_id)]

\* EventScheduler.cancel: the boolean it returns is CancelResult
CancelResult(e, event_id) == event_id \in DOMAIN e.registry

Cancel(e, event_id) ==
    IF event_id \notin DOMAIN e.registry
    THEN e
    ELSE [e EXCEPT !.registry = RegDel(@, event_id),
                   !.heap = {ev \in @ : ev.event_id # event_id}]

\* EventScheduler.process_next up to the call of the callback
PopEvent(e, event) ==
    [e EXCEPT !.heap = @ \ {event},
              !.registry = IF event.event_id \in DOMAIN @
                           THEN RegDel(@, event.event_id) ELSE @,
              !.current_time = event.timestamp,
              !.fired = event]

(***************************************************************************)
(* Configuration accessors.                                                *)
(***************************************************************************)
\* next(f for f in config["flows"] if f["flow_id"] == flow_id)
FlowConfig(c, flow_id) ==
    LET i == CHOOSE k \in 1..Len(c.flows) :
                 /\ c.flows[k].flow_id = flow_id
                 /\ \A j \in 1..(k - 1) : c.flows[j].flow_id # flow_id
    IN c.flows[i]

\* SimulationEngine._device_configs[device_id]
DeviceConfig(c, device_id) ==
    LET i == CHOOSE k \in 1..Len(c.devices) : c.devices[k].id = device_id
    IN c.devices[i]

\* [d["id"] for d in self.config["devices"]]
DeviceIds(c) == {c.devices[i].id : i \in 1..Len(c.devices)}

\* flow.get("process_time_range")
ProcessTimeRange(flow) ==
    IF "process_time_range" \in DOMAIN flow THEN flow.process_time_range ELSE <<>>

\* flow.get("offset_mode", "parallel")
OffsetMode(flow) ==
    IF "offset_mode" \in DOMAIN flow THEN flow.offset_mode ELSE "parallel"

\* flow.get("start_offset", 0.0)
StartOffset(flow) ==
    IF "start_offset" \in DOMAIN flow THEN flow.start_offset ELSE 0

\* config["simulation"].get("speed_multiplier", 1.0)
SpeedMultiplier(c) == IF c.has_speed_multiplier THEN c.speed_multiplier ELSE 1

\* the pacing test of run() and of pause()
Paced(c) == c.execution_mode = "real-time" \/ SpeedMultiplier(c) > 0

(***************************************************************************)
(* StateManager.                                                           *)
(***************************************************************************)
\* the table with Blocked cleared back to Processing
TransitionsClearedToProcessing ==
    [s \in DeviceState |->
        CASE s = "Idle" -> ("START_PROCESSING" :> "Processing") @@
                           ("FAILURE_DETECTED" :> "Failed")
          [] s = "Processing" -> ("COMPLETE_PROCESSING" :> "Idle") @@
                                 ("FAILURE_DETECTED" :> "Failed") @@
                                 ("BACKPRESSURE_DETECTED" :> "Blocked")
          [] s = "Blocked" -> ("BACKPRESSURE_CLEARED" :> "Processing") @@
                              ("FAILURE_DETECTED" :> "Failed")
          [] s = "Failed" -> ("RECOVERY_COMPLETE" :> "Idle")]

\* StateManager._transitions
Transitions ==
    [s \in DeviceState |->
        CASE s = "Idle" -> ("START_PROCESSING" :> "Processing") @@
                           ("FAILURE_DETECTED" :> "Failed")
          [] s = "Processing" -> ("COMPLETE_PROCESSING" :> "Idle") @@
                                 ("FAILURE_DETECTED" :> "Failed") @@
                                 ("BACKPRESSURE_DETECTED" :> "Blocked")
          [] s = "Blocked" -> ("BACKPRESSURE_CLEARED" :> "Idle") @@
                              ("FAILURE_DETECTED" :> "Failed")
          [] s = "Failed" -> ("RECOVERY_COMPLETE" :> "Idle")]

\* the test "event not in self._transitions[current_state]" of transition()
TransitionAllowed(current_state, event) == event \in DOMAIN Transitions[current_state]

\* a recovery scheduled one second after the end of the recovery range
ScheduleDeviceRecoveryLate(e, device_id) ==
    LET recovery_range == DeviceConfig(e.cfg, device_id).recovery_time_range
    IN IF recovery_range = <<>>
       THEN e
       ELSE Schedule([e EXCEPT !.rng_calls = @ + 1],
                     e.current_time + recovery_range[2] + 1,
                     <<"device_recovery", device_id, e.current_time>>,
                     [kind |-> "complete_device_recovery", arg |-> device_id, n |-> 0])

\* SimulationEngine._schedule_device_recovery, the callback the state manager
\* calls when a device enters Failed
ScheduleDeviceRecovery(e, device_id) ==
    LET recovery_range == DeviceConfig(e.cfg, device_id).recovery_time_range
    IN IF recovery_range = <<>>
       THEN e
       ELSE LET recovery_duration == Uniform(e.cfg.random_seed, e.rng_calls,
                                             recovery_range[1], recovery_range[2])
                e1 == [e EXCEPT !.rng_calls = @ + 1]
                e2 == Schedule(e1, e1.current_time + recovery_duration,
                               <<"device_recovery", device_id, e1.current_time>>,
                               [kind |-> "complete_device_recovery",
                                arg |-> device_id, n |-> 0])
            IN IF e2.exc # NoExc
               THEN [e2 EXCEPT !.raised = @ \cup {e2.exc}, !.exc = NoExc]
               ELSE e2

\* a transition that changes the state and writes no record
TransitionUnrecorded(e, device_id, event) ==
    LET current_state == e.states[device_id]
    IN IF ~TransitionAllowed(current_state, event)
       THEN [e EXCEPT !.exc = "InvalidTransitionError"]
       ELSE LET new_state == Transitions[current_state][event]
                e1 == [e EXCEPT !.states[device_id] = new_state]
            IN IF new_state = "Failed" /\ e.recovery_callback
               THEN ScheduleDeviceRecovery(e1, device_id)
               ELSE e1

\* StateManager.transition
Transition(e, device_id, event) ==
    LET current_state == e.states[device_id]
    IN IF ~TransitionAllowed(current_state, event)
       THEN [e EXCEPT !.exc = "InvalidTransitionError"]
       ELSE LET new_state == Transitions[current_state][event]
                e1 == [e EXCEPT !.states[device_id] = new_state,
                                !.history = Append(@,
                                    [device_id |-> device_id,
                                     from_state |-> current_state,
                                     to_state |-> new_state,
                                     event |-> event,
                                     timestamp |-> e.current_time])]
            IN IF new_state = "Failed" /\ e.recovery_callback
               THEN ScheduleDeviceRecovery(e1, device_id)
               ELSE e1

\* has_capacity with "<=" for "<"
HasCapacityOffByOne(e, device_id) ==
    Cardinality(e.active[device_id]) <= DeviceConfig(e.cfg, device_id).capacity

\* StateManager.has_capacity
HasCapacity(e, device_id) ==
    Cardinality(e.active[device_id]) < DeviceConfig(e.cfg, device_id).capacity

\* StateManager.acquire_capacity: the boolean it returns is AcquireResult
AcquireResult(e, device_id) == HasCapacity(e, device_id)

AcquireCapacity(e, device_id, flow_id) ==
    IF ~HasCapacity(e, device_id)
    THEN e
    ELSE [e EXCEPT !.active[device_id] = @ \cup {flow_id}]

\* StateManager.release_capacity
ReleaseCapacity(e, device_id, flow_id) ==
    [e EXCEPT !.active[device_id] = @ \ {flow_id}]

(***************************************************************************)
(* FlowController.                                                         *)
(***************************************************************************)
IsCompleted(e, flow_id) == flow_id \in e.completed

MarkCompleted(e, flow_id) == [e EXCEPT !.completed = @ \cup {flow_id}]

(***************************************************************************)
(* SimulationEngine: the event handlers.                                   *)
(***************************************************************************)
\* "except Exception as e: logger.error(...)" of a handler
Caught(e) == [e EXCEPT !.raised = @ \cup {e.exc}, !.exc = NoExc]

ExecuteCallback(flow_id) == [kind |-> "execute_flow", arg |-> flow_id, n |-> 0]

\* a retry of _execute_flow one delay after the current time
Retry(e, prefix, flow_id, delay) ==
    Schedule(e, e.current_time + delay, <<prefix, flow_id, e.current_time>>,
             ExecuteCallback(flow_id))

\* a gate test that looks only at whether the gate is defined
GateUndefined(c, flow) == \E g \in flow.required_gates : g \notin DOMAIN c.gates

\* the gate test of _execute_flow: some required gate is not active
GateClosed(c, flow) == \E g \in flow.required_gates :
                           ~(g \in DOMAIN c.gates /\ c.gates[g])

\* the finish-to-start test waiting only while no dependency is completed
DependencyPendingAll(e, flow) ==
    /\ flow.dependencies # {}
    /\ \A dep \in flow.dependencies : ~IsCompleted(e, dep)

\* the finish-to-start test of _execute_flow: some dependency is not completed
DependencyPending(e, flow) == \E dep \in flow.dependencies : ~IsCompleted(e, dep)

\* _execute_flow from "Clear BLOCKED state if was blocked" to the end
StartProcessing(e, flow) ==
    LET from_device == flow.from_device
        e1 == IF e.states[from_device] = "Blocked"
              THEN Transition(e, from_device, "BACKPRESSURE_CLEARED")
              ELSE e
        e2 == IF e1.exc # NoExc THEN e1
              ELSE IF e1.states[from_device] = "Idle"
                   THEN Transition(e1, from_device, "START_PROCESSING")
                   ELSE e1
        process_duration == Uniform(e2.cfg.random_seed, e2.rng_calls,
                                    flow.process_time_range[1],
                                    flow.process_time_range[2])
        e3 == [e2 EXCEPT !.rng_calls = @ + 1]
    IN IF e2.exc # NoExc THEN e2
       ELSE IF "process_time_range" \notin DOMAIN flow
       THEN [e2 EXCEPT !.exc = "KeyError"]
       ELSE Schedule(e3, e3.current_time + process_duration,
                     <<"flow_complete", flow.flow_id, e3.event_count>>,
                     [kind |-> "complete_flow", arg |-> flow.flow_id, n |-> 0])

\* the backpressure exit that leaves the source device's state alone
BackpressureWithoutBlocking(e, flow) ==
    Retry(e, "flow_backpressure_retry", flow.flow_id, FLOW_RETRY_DELAY_SECONDS)

\* _execute_flow when the destination has no capacity
Backpressure(e, flow) ==
    LET e1 == IF e.states[flow.from_device] = "Processing"
              THEN Transition(e, flow.from_device, "BACKPRESSURE_DETECTED")
              ELSE e
    IN IF e1.exc # NoExc THEN e1
       ELSE Retry(e1, "flow_backpressure_retry", flow.flow_id, FLOW_RETRY_DELAY_SECONDS)

\* the acquisition that keeps the source capacity when the destination fails
AcquireBothNoRelease(e, flow) ==
    IF ~AcquireResult(e, flow.from_device)
    THEN Retry(e, "flow_capacity_retry", flow.flow_id, FLOW_RETRY_DELAY_SECONDS)
    ELSE LET e1 == AcquireCapacity(e, flow.from_device, flow.flow_id)
         IN IF ~AcquireResult(e1, flow.to_device)
            THEN Retry(e1, "flow_dest_capacity_retry", flow.flow_id,
                       FLOW_RETRY_DELAY_SECONDS)
            ELSE StartProcessing(AcquireCapacity(e1, flow.to_device, flow.flow_id),
                                 flow)

\* _execute_flow from "Acquire capacity on source device" on
AcquireBoth(e, flow) ==
    IF ~AcquireResult(e, flow.from_device)
    THEN Retry(e, "flow_capacity_retry", flow.flow_id, FLOW_RETRY_DELAY_SECONDS)
    ELSE LET e1 == AcquireCapacity(e, flow.from_device, flow.flow_id)
         IN IF ~AcquireResult(e1, flow.to_device)
            THEN Retry(ReleaseCapacity(e1, flow.from_device, flow.flow_id),
                       "flow_dest_capacity_retry", flow.flow_id,
                       FLOW_RETRY_DELAY_SECONDS)
            ELSE StartProcessing(AcquireCapacity(e1, flow.to_device, flow.flow_id),
                                 flow)

\* SimulationEngine._execute_flow
ExecuteFlow(e, flow_id) ==
    IF IsCompleted(e, flow_id) THEN e
    ELSE LET flow == FlowConfig(e.cfg, flow_id)
             e1 == [e EXCEPT !.flow_executions[flow_id] = @ + 1]
             out == IF GateClosed(e.cfg, flow)
                    THEN Retry(e, "flow_gate_retry", flow_id, GATE_RETRY_DELAY_SECONDS)
                    ELSE IF DependencyPending(e, flow)
                    THEN Retry(e, "flow_retry", flow_id, FLOW_RETRY_DELAY_SECONDS)
                    ELSE IF ~HasCapacity(e1, flow.to_device)
                    THEN Backpressure(e1, flow)
                    ELSE AcquireBoth(e1, flow)
         IN IF out.exc # NoExc THEN Caught(out) ELSE out

\* the trigger that starts a dependent as soon as one dependency completes
RECURSIVE TriggerFromAny(_, _, _)
TriggerFromAny(e, completed_flow_id, i) ==
    IF i > Len(e.cfg.flows) \/ e.exc # NoExc THEN e
    ELSE LET flow == e.cfg.flows[i]
             e1 == IF /\ completed_flow_id \in flow.dependencies
                      /\ ~IsCompleted(e, flow.flow_id)
                   THEN Schedule(e, e.current_time,
                                 <<"flow_dep", flow.flow_id, e.current_time>>,
                                 ExecuteCallback(flow.flow_id))
                   ELSE e
         IN TriggerFromAny(e1, completed_flow_id, i + 1)

\* SimulationEngine._trigger_dependent_flows: the loop over config["flows"],
\* from the i-th flow on
RECURSIVE TriggerFrom(_, _, _)
TriggerFrom(e, completed_flow_id, i) ==
    IF i > Len(e.cfg.flows) \/ e.exc # NoExc THEN e
    ELSE LET flow == e.cfg.flows[i]
             all_deps_complete == \A dep \in flow.dependencies : IsCompleted(e, dep)
             e1 == IF /\ completed_flow_id \in flow.dependencies
                      /\ all_deps_complete
                      /\ ~IsCompleted(e, flow.flow_id)
                   THEN Schedule(e, e.current_time,
                                 <<"flow_dep", flow.flow_id, e.current_time>>,
                                 ExecuteCallback(flow.flow_id))
                   ELSE e
         IN TriggerFrom(e1, completed_flow_id, i + 1)

TriggerDependentFlows(e, completed_flow_id) == TriggerFrom(e, completed_flow_id, 1)

\* _complete_flow submitting COMPLETE_PROCESSING whatever the source's state
CompleteFlowUnguarded(e, flow_id) ==
    LET flow == FlowConfig(e.cfg, flow_id)
        e1 == Transition(e, flow.from_device, "COMPLETE_PROCESSING")
        e2 == ReleaseCapacity(ReleaseCapacity(e1, flow.from_device, flow_id),
                              flow.to_device, flow_id)
        out == IF e1.exc # NoExc THEN e1
               ELSE TriggerDependentFlows(MarkCompleted(e2, flow_id), flow_id)
    IN IF out.exc # NoExc THEN Caught(out) ELSE out

\* _complete_flow releasing the capacity of the source device only
CompleteFlowSourceOnly(e, flow_id) ==
    LET flow == FlowConfig(e.cfg, flow_id)
        e1 == IF e.states[flow.from_device] = "Processing"
              THEN Transition(e, flow.from_device, "COMPLETE_PROCESSING")
              ELSE e
        e2 == ReleaseCapacity(e1, flow.from_device, flow_id)
        out == IF e1.exc # NoExc THEN e1
               ELSE TriggerDependentFlows(MarkCompleted(e2, flow_id), flow_id)
    IN IF out.exc # NoExc THEN Caught(out) ELSE out

\* SimulationEngine._complete_flow
CompleteFlow(e, flow_id) ==
    LET flow == FlowConfig(e.cfg, flow_id)
        e1 == IF e.states[flow.from_device] = "Processing"
              THEN Transition(e, flow.from_device, "COMPLETE_PROCESSING")
              ELSE e
        e2 == ReleaseCapacity(ReleaseCapacity(e1, flow.from_device, flow_id),
                              flow.to_device, flow_id)
        out == IF e1.exc # NoExc THEN e1
               ELSE TriggerDependentFlows(MarkCompleted(e2, flow_id), flow_id)
    IN IF out.exc # NoExc THEN Caught(out) ELSE out

\* SimulationEngine._complete_device_recovery
CompleteDeviceRecovery(e, device_id) ==
    LET out == IF e.states[device_id] = "Failed"
               THEN Transition(e, device_id, "RECOVERY_COMPLETE")
               ELSE e
    IN IF out.exc # NoExc THEN Caught(out) ELSE out

RECURSIVE ScheduleInitialAll(_, _)
\* a start event for every flow, whether it has dependencies or not
ScheduleInitialAll(e, i) ==
    IF i > Len(e.cfg.flows) \/ e.exc # NoExc THEN e
    ELSE LET flow == e.cfg.flows[i]
             start_time == IF OffsetMode(flow) = "custom"
                           THEN StartOffset(flow) ELSE 0
         IN ScheduleInitialAll(
                Schedule(e, start_time, <<"flow_start", flow.flow_id, 0>>,
                         ExecuteCallback(flow.flow_id)),
                i + 1)

\* SimulationEngine._schedule_initial_flows: the loop over config["flows"],
\* from the i-th flow on
RECURSIVE ScheduleInitialFrom(_, _)
ScheduleInitialFrom(e, i) ==
    IF i > Len(e.cfg.flows) \/ e.exc # NoExc THEN e
    ELSE LET flow == e.cfg.flows[i]
             dependency_driven ==
                 /\ OffsetMode(flow) \in {"parallel", "sequence"}
                 /\ flow.dependencies # {}
             start_time == IF OffsetMode(flow) = "custom"
                           THEN StartOffset(flow) ELSE 0
             e1 == IF dependency_driven THEN e
                   ELSE Schedule(e, start_time, <<"flow_start", flow.flow_id, 0>>,
                                 ExecuteCallback(flow.flow_id))
         IN ScheduleInitialFrom(e1, i + 1)

ScheduleInitialFlows(e) == ScheduleInitialFrom(e, 1)

\* event.callback(): the closures the engine schedules, and the callbacks of
\* a scheduler driven directly ("none" does nothing, "schedule" schedules a
\* further event n after the current time)
RunCallback(e, callback) ==
    CASE callback.kind = "execute_flow" -> ExecuteFlow(e, callback.arg)
      [] callback.kind = "complete_flow" -> CompleteFlow(e, callback.arg)
      [] callback.kind = "complete_device_recovery" ->
             CompleteDeviceRecovery(e, callback.arg)
      [] callback.kind = "schedule" ->
             Schedule(e, e.current_time + callback.n,
                      <<"nested", callback.arg, e.insertion_counter>>,
                      [kind |-> "none", arg |-> callback.arg, n |-> 0])
      [] OTHER -> e

\* EventScheduler.process_next, for the event the heap pops
ProcessEvent(e, event) == RunCallback(PopEvent(e, event), event.callback)

\* EventScheduler.process_next: the states it can leave behind
ProcessNext(e) ==
    IF e.heap = {}
    THEN {[e EXCEPT !.exc = "RuntimeError"]}
    ELSE {ProcessEvent(e, event) : event \in HeapTop(e.heap)}

(***************************************************************************)
(* SimulationEngine: construction and the run loop.                        *)
(***************************************************************************)
\* The wall clock is counted in ticks of which TicksPerSecond(c) make one
\* second, so that target_real_time = start + timestamp * time_factor is a
\* whole number of ticks: time_factor is 1 in real-time mode and
\* 1 / speed_multiplier when the multiplier is positive.
TicksPerSecond(c) ==
    IF c.execution_mode = "real-time" THEN 1
    ELSE IF SpeedMultiplier(c) > 0 THEN SpeedMultiplier(c) ELSE 1

\* time_factor of run(), in ticks per simulated second
TimeFactor(c) ==
    IF c.execution_mode = "real-time" THEN 1
    ELSE IF SpeedMultiplier(c) > 0 THEN TicksPerSecond(c) \div SpeedMultiplier(c)
    ELSE 0

\* SimulationEngine.__init__ (with EventScheduler.__init__, StateManager.__init__
\* and FlowController.__init__)
NewEngine(c) ==
    [cfg |-> c,
     heap |-> {},
     current_time |-> 0,
     insertion_counter |-> 0,
     registry |-> EmptyRegistry,
     states |-> [d \in DeviceIds(c) |-> "Idle"],
     history |-> <<>>,
     active |-> [d \in DeviceIds(c) |-> {}],
     recovery_callback |-> TRUE,
     completed |-> {},
     event_count |-> 0,
     flow_executions |-> [f \in FlowIds |-> 0],
     cancelled |-> FALSE,
     paused |-> FALSE,
     pause_requested_time |-> 0,
     real_time_start |-> 0,
     rng_calls |-> 0,
     pc |-> "created",
     wake_at |-> 0,
     fired |-> NoEvent,
     exc |-> NoExc,
     raised |-> {}]

\* a range test that lets min = max through
TimeRangeInverted(time_range) == time_range[2] < time_range[1]

\* "if max_time <= min_time" of rule 6
TimeRangeInvalid(time_range) == time_range[2] <= time_range[1]

\* errors.append(msg) under a condition
ErrorIf(condition, msg) == IF condition THEN {msg} ELSE {}

\* ConfigManager.validate: the errors it collects (the gate references and
\* rules 2 to 9)
ValidationErrors(c) ==
    LET flows == {c.flows[i] : i \in 1..Len(c.flows)}
        devices == {c.devices[i] : i \in 1..Len(c.devices)}
        flow_ids == {f.flow_id : f \in flows}
    IN  ErrorIf(\E d \in devices : ~(d.required_gates \subseteq DOMAIN c.gates),
                "Device requires undefined gate")
        \cup ErrorIf(\E f \in flows : ~(f.required_gates \subseteq DOMAIN c.gates),
                     "Flow requires undefined gate")
        \cup ErrorIf(Len(c.devices) # Cardinality(DeviceIds(c)),
                     "Duplicate device IDs detected")
        \cup ErrorIf(Len(c.flows) # Cardinality(flow_ids),
                     "Duplicate flow IDs detected")
        \cup ErrorIf(\E f \in flows :
                         ~({f.from_device, f.to_device} \subseteq DeviceIds(c)),
                     "references unknown device")
        \cup ErrorIf(\E d \in devices : d.capacity < 1, "Capacity must be >= 1")
        \cup ErrorIf(\E f \in flows : /\ ProcessTimeRange(f) # <<>>
                                       /\ ProcessTimeRange(f)[1] < 0,
                     "has negative min time")
        \cup ErrorIf(\E f \in flows : /\ ProcessTimeRange(f) # <<>>
                                       /\ TimeRangeInvalid(ProcessTimeRange(f)),
                     "time range must have min < max")
        \cup ErrorIf(\E d \in devices : /\ d.recovery_time_range # <<>>
                                         /\ d.recovery_time_range[1] < 0,
                     "has negative recovery min time")
        \cup ErrorIf(\E d \in devices :
                         /\ d.recovery_time_range # <<>>
                         /\ TimeRangeInvalid(d.recovery_time_range),
                     "recovery range must have min < max")
        \cup ErrorIf(c.random_seed < 0, "Random seed must be >= 0")
        \cup ErrorIf(c.duration <= 0, "Duration must be > 0")
        \cup ErrorIf(\E f \in flows : ~(f.dependencies \subseteq flow_ids),
                     "references unknown flow")

\* SimulationEngine(config): the engine, or the ValidationError that
\* ConfigManager.validate raises out of the constructor
Construct(c) ==
    IF ValidationErrors(c) # {}
    THEN [NewEngine(c) EXCEPT !.pc = "raised", !.exc = "ValidationError"]
    ELSE NewEngine(c)

\* the engine made of the variables
Eng ==
    [cfg |-> cfg, heap |-> heap, current_time |-> current_time,
     insertion_counter |-> insertion_counter, registry |-> registry,
     states |-> states, history |-> history, active |-> active,
     recovery_callback |-> recovery_callback, completed |-> completed,
     event_count |-> event_count, flow_executions |-> flow_executions,
     cancelled |-> cancelled, paused |-> paused,
     pause_requested_time |-> pause_requested_time,
     real_time_start |-> real_time_start, rng_calls |-> rng_calls,
     pc |-> pc, wake_at |-> wake_at, fired |-> fired, exc |-> exc,
     raised |-> raised]

\* the variables after a step that leaves the engine e behind; no step of an
\* engine calls a deadlock detector
Becomes(e) ==
    /\ cfg' = e.cfg
    /\ heap' = e.heap
    /\ current_time' = e.current_time
    /\ insertion_counter' = e.insertion_counter
    /\ registry' = e.registry
    /\ states' = e.states
    /\ history' = e.history
    /\ active' = e.active
    /\ recovery_callback' = e.recovery_callback
    /\ completed' = e.completed
    /\ event_count' = e.event_count
    /\ flow_executions' = e.flow_executions
    /\ cancelled' = e.cancelled
    /\ paused' = e.paused
    /\ pause_requested_time' = e.pause_requested_time
    /\ real_time_start' = e.real_time_start
    /\ rng_calls' = e.rng_calls
    /\ pc' = e.pc
    /\ wake_at' = e.wake_at
    /\ fired' = e.fired
    /\ exc' = e.exc
    /\ raised' = e.raised
    /\ UNCHANGED <<detector, returned>>

\* the variables of a new engine e
StartsAs(e) ==
    /\ cfg = e.cfg
    /\ heap = e.heap
    /\ current_time = e.current_time
    /\ insertion_counter = e.insertion_counter
    /\ registry = e.registry
    /\ states = e.states
    /\ history = e.history
    /\ active = e.active
    /\ recovery_callback = e.recovery_callback
    /\ completed = e.completed
    /\ event_count = e.event_count
    /\ flow_executions = e.flow_executions
    /\ cancelled = e.cancelled
    /\ paused = e.paused
    /\ pause_requested_time = e.pause_requested_time
    /\ real_time_start = e.real_time_start
    /\ rng_calls = e.rng_calls
    /\ pc = e.pc
    /\ wake_at = e.wake_at
    /\ fired = e.fired
    /\ exc = e.exc
    /\ raised = e.raised

\* run() up to the loop: the real-time reference and the initial flow events
RunStart(e, now) ==
    LET e1 == IF Paced(e.cfg) THEN [e EXCEPT !.real_time_start = now] ELSE e
        e2 == ScheduleInitialFlows(e1)
    IN IF e2.exc # NoExc THEN [e2 EXCEPT !.pc = "raised"]
       ELSE [e2 EXCEPT !.pc = "loop"]

\* a loop that goes on testing its condition when no event is left
LoopHeadSpinning(e) ==
    IF e.heap # {} /\ ~e.cancelled
    THEN [e EXCEPT !.pc = "pause_wait"]
    ELSE e

\* the test of "while self.scheduler.has_events() and not self._cancelled"
LoopHead(e) ==
    IF e.heap # {} /\ ~e.cancelled
    THEN [e EXCEPT !.pc = "pause_wait"]
    ELSE [e EXCEPT !.pc = "done"]

\* the pacing of run(): whether the loop sleeps before the event next_event,
\* and until when
SleepNeeded(e, next_event, now) ==
    /\ Paced(e.cfg)
    /\ TimeFactor(e.cfg) > 0
    /\ now < e.real_time_start + next_event.timestamp * TimeFactor(e.cfg)

SleepUntil(e, next_event, now) ==
    LET target_real_time == e.real_time_start
                            + next_event.timestamp * TimeFactor(e.cfg)
    IN now + Min(target_real_time - now,
                 MAX_REAL_TIME_SLEEP_SECONDS * TicksPerSecond(e.cfg))

\* the iteration without the test of the next event's timestamp
AfterPauseNoDurationTest(e, next_event, now) ==
    IF e.cancelled THEN [e EXCEPT !.pc = "done"]
    ELSE IF SleepNeeded(e, next_event, now)
    THEN [e EXCEPT !.pc = "sleeping", !.wake_at = SleepUntil(e, next_event, now)]
    ELSE [e EXCEPT !.pc = "process"]

\* the iteration without "if self._cancelled: break" after the pause loop
AfterPauseNoCancelTest(e, next_event, now) ==
    IF next_event.timestamp > e.cfg.duration THEN [e EXCEPT !.pc = "done"]
    ELSE IF SleepNeeded(e, next_event, now)
    THEN [e EXCEPT !.pc = "sleeping", !.wake_at = SleepUntil(e, next_event, now)]
    ELSE [e EXCEPT !.pc = "process"]

\* run() from the end of the pause loop to the call of process_next, with
\* next_event the event peek_next returns
AfterPause(e, next_event, now) ==
    IF e.cancelled THEN [e EXCEPT !.pc = "done"]
    ELSE IF next_event.timestamp > e.cfg.duration THEN [e EXCEPT !.pc = "done"]
    ELSE IF SleepNeeded(e, next_event, now)
    THEN [e EXCEPT !.pc = "sleeping", !.wake_at = SleepUntil(e, next_event, now)]
    ELSE [e EXCEPT !.pc = "process"]

\* "self.scheduler.process_next(); self._event_count += 1"
ProcessAndCount(e) ==
    {[n EXCEPT !.event_count = @ + 1, !.pc = "loop"] : n \in ProcessNext(e)}

\* the summary, device_states and state_history sections of _generate_output
\* and the flows_executed section
Output(e) ==
    [total_events |-> e.event_count,
     total_flows_completed |->
         LET RECURSIVE Sum(_)
             Sum(S) == IF S = {} THEN 0
                       ELSE LET f == CHOOSE x \in S : TRUE
                            IN e.flow_executions[f] + Sum(S \ {f})
         IN Sum(FlowIds),
     devices_count |-> Len(e.cfg.devices),
     simulation_time_seconds |-> e.current_time,
     device_states |-> [d \in DeviceIds(e.cfg) |->
         [final_state |-> e.states[d],
          state_changes |-> Len(SelectSeq(e.history, LAMBDA h : h.device_id = d))]],
     state_history |-> e.history,
     flows_executed |-> e.flow_executions]

(***************************************************************************)
(* The configurations the engines are built from: every one passes         *)
(* ConfigManager.validate and FlowController._validate (capacities >= 1,   *)
(* min < max in every time range, known devices, flows and gates, acyclic  *)
(* dependencies).                                                          *)
(***************************************************************************)
Flow(id, from, to, range, deps, gates, mode, offset) ==
    [flow_id |-> id, from_device |-> from, to_device |-> to,
     process_time_range |-> range, dependencies |-> deps,
     required_gates |-> gates, offset_mode |-> mode, start_offset |-> offset]

FlowSets ==
    { \* three flows competing for the same pair of devices
      << Flow("F1", "D1", "D2", <<1, 2>>, {}, {}, "parallel", 0),
         Flow("F2", "D1", "D2", <<1, 3>>, {}, {}, "parallel", 0),
         Flow("F3", "D1", "D2", <<2, 3>>, {}, {}, "sequence", 0) >>,
      \* a chain of dependencies in the three offset modes
      << Flow("F1", "D1", "D2", <<1, 2>>, {}, {}, "parallel", 0),
         Flow("F2", "D2", "D1", <<1, 2>>, {"F1"}, {}, "sequence", 0),
         Flow("F3", "D1", "D2", <<1, 2>>, {"F1", "F2"}, {}, "custom", 1) >>,
      \* a flow from a device to itself, and a custom flow that depends on it
      << Flow("F1", "D1", "D1", <<1, 2>>, {}, {}, "parallel", 0),
         Flow("F2", "D2", "D1", <<1, 3>>, {}, {}, "custom", 1),
         Flow("F3", "D1", "D2", <<1, 2>>, {"F1"}, {}, "custom", 0) >>,
      \* gates: one open, one closed
      << Flow("F1", "D1", "D2", <<1, 2>>, {}, {"open"}, "parallel", 0),
         Flow("F2", "D2", "D1", <<1, 2>>, {}, {"closed"}, "parallel", 0),
         Flow("F3", "D2", "D1", <<1, 2>>, {"F1"}, {}, "parallel", 0) >> }

\* the "simulation" section: duration, execution_mode and speed_multiplier
Simulations ==
    { [duration |-> 2, execution_mode |-> "accelerated",
       has_speed_multiplier |-> FALSE, speed_multiplier |-> 0],
      [duration |-> MaxDuration, execution_mode |-> "accelerated",
       has_speed_multiplier |-> TRUE, speed_multiplier |-> 0],
      [duration |-> MaxDuration, execution_mode |-> "real-time",
       has_speed_multiplier |-> TRUE, speed_multiplier |-> 2] }

Config(flows, cap1, cap2, seed, pacing) ==
    [duration |-> pacing.duration,
     random_seed |-> seed,
     execution_mode |-> pacing.execution_mode,
     has_speed_multiplier |-> pacing.has_speed_multiplier,
     speed_multiplier |-> pacing.speed_multiplier,
     devices |-> << [id |-> "D1", capacity |-> cap1, recovery_time_range |-> <<1, 2>>,
                     required_gates |-> {}],
                    [id |-> "D2", capacity |-> cap2, recovery_time_range |-> <<>>,
                     required_gates |-> {}] >>,
     flows |-> flows,
     gates |-> [g \in {"open", "closed"} |-> g = "open"]]

Configs ==
    { Config(flows, cap1, cap2, seed, simulation) :
        flows \in FlowSets, cap1 \in Capacities, cap2 \in Capacities,
        seed \in Seeds, simulation \in Simulations }

NoCall == [op |-> "none", arg |-> <<>>, result |-> "none"]

(***************************************************************************)
(* An engine run: the thread inside run(), and the calls that reach the    *)
(* engine from outside while it runs.                                      *)
(***************************************************************************)
Init ==
    /\ \E c \in Configs : StartsAs(NewEngine(c)) /\ twin = NewEngine(c)
    /\ failures = 0
    /\ wall = 0
    /\ detector = NoDetector
    /\ returned = <<>>
    /\ ret = NoCall

\* run() is called
Start ==
    /\ pc = "created"
    /\ Becomes(RunStart(Eng, wall))
    /\ UNCHANGED <<failures, wall, twin, ret>>

\* the loop condition is evaluated
LoopTest ==
    /\ pc = "loop"
    /\ Becomes(LoopHead(Eng))
    /\ UNCHANGED <<failures, wall, twin, ret>>

\* the pause loop is left (or not entered), the next event is peeked at and
\* the loop breaks, sleeps or goes on to process_next
PauseWait ==
    /\ pc = "pause_wait"
    /\ ~(paused /\ ~cancelled)
    /\ \E next_event \in HeapTop(heap) :
           Becomes(AfterPause(Eng, next_event, wall))
    /\ UNCHANGED <<failures, wall, twin, ret>>

\* time.sleep(sleep_duration) returns
Wake ==
    /\ pc = "sleeping"
    /\ wall' = Max(wall, wake_at)
    /\ Becomes([Eng EXCEPT !.pc = "process"])
    /\ UNCHANGED <<failures, twin, ret>>

\* process_next runs the next event's callback to completion
Process ==
    /\ pc = "process"
    /\ \E e \in ProcessAndCount(Eng) : Becomes(e)
    /\ UNCHANGED <<failures, wall, twin, ret>>

\* SimulationEngine.cancel, from another thread or before run(); ret records
\* where the thread inside run() stood when the call was made
CancelCall ==
    /\ pc # "done"
    /\ ~cancelled
    /\ Becomes([Eng EXCEPT !.cancelled = TRUE])
    /\ ret' = [op |-> "cancel", arg |-> <<pc>>, result |-> NoExc]
    /\ UNCHANGED <<failures, wall, twin>>

\* SimulationEngine.pause.  The run loop reads the flag in its pause loop only,
\* so a call made later in an iteration is the call made when that iteration
\* has ended.
\* pause() without the test of the execution mode
PauseInAnyMode(e, now) ==
    [e EXCEPT !.paused = TRUE, !.pause_requested_time = now]

Pause(e, now) ==
    IF Paced(e.cfg)
    THEN [e EXCEPT !.paused = TRUE, !.pause_requested_time = now]
    ELSE e

PauseCall ==
    /\ pc \in {"created", "loop"}
    /\ ~paused
    /\ Becomes(Pause(Eng, wall))
    /\ UNCHANGED <<failures, wall, twin, ret>>

\* SimulationEngine.resume
Resume(e, now) ==
    IF e.paused
    THEN [e EXCEPT !.real_time_start = @ + (now - e.pause_requested_time),
                   !.paused = FALSE]
    ELSE e

ResumeCall ==
    /\ pc \in {"created", "loop", "pause_wait"}
    /\ Becomes(Resume(Eng, wall))
    /\ UNCHANGED <<failures, wall, twin, ret>>

\* engine.state_manager.transition(device, "FAILURE_DETECTED") submitted from
\* outside the orchestrator, before run() or between two events of a run
FailureDetected(d) ==
    /\ pc \in {"created", "loop"}
    /\ failures < MaxFailures
    /\ TransitionAllowed(states[d], "FAILURE_DETECTED")
    /\ Becomes(Transition(Eng, d, "FAILURE_DETECTED"))
    /\ failures' = failures + 1
    /\ UNCHANGED <<wall, twin, ret>>

Next ==
    \/ Start
    \/ LoopTest
    \/ PauseWait
    \/ Wake
    \/ Process
    \/ CancelCall
    \/ PauseCall
    \/ ResumeCall
    \/ \E d \in Devices : FailureDetected(d)

Spec == Init /\ [][Next]_vars

(***************************************************************************)
(* Properties of an engine run.                                            *)
(***************************************************************************)
\* the pending events of a kind for a flow or a device
Pending(kind, arg) ==
    {ev \in heap : ev.callback.kind = kind /\ ev.callback.arg = arg}

\* a step of the run loop that processed an event (the event is fired')
Processed == event_count' = event_count + 1

\* C1: for every device, the number of flow ids in its active-flow set is at
\* most the device's configured capacity, in every state of a run.
C1_CapacityNeverExceeded ==
    \A d \in Devices :
        Cardinality(active[d]) <= DeviceConfig(cfg, d).capacity

\* a run in which a device is full while an attempt on it was turned away
C1_Witness ==
    \E d \in Devices, f \in FlowIds :
        /\ Cardinality(active[d]) = DeviceConfig(cfg, d).capacity
        /\ DeviceConfig(cfg, d).capacity = 2
        /\ f \notin active[d]
        /\ \E ev \in Pending("execute_flow", f) :
               ev.event_id[1] \in {"flow_backpressure_retry", "flow_capacity_retry"}

\* C2: finish-to-start.  A flow holds capacity, has been counted as executed
\* or has a completion event pending only if all its dependencies are
\* completed; and an attempt of a flow that has an uncompleted dependency
\* changes no active-flow set, submits no transition and schedules no
\* completion event.
DependenciesCompleted(f) == FlowConfig(cfg, f).dependencies \subseteq completed

CompletionEvents == {ev \in heap : ev.callback.kind = "complete_flow"}

C2_Started(f) ==
    \/ \E d \in Devices : f \in active[d]
    \/ Pending("complete_flow", f) # {}
    \/ flow_executions[f] > 0

C5_NoInvalidTransition == "InvalidTransitionError" \notin raised

\* a completion fired for a flow whose source device had failed meanwhile
C5_Witness ==
    /\ failures > 0
    /\ fired.callback.kind = "complete_flow"
    /\ states[FlowConfig(cfg, fired.callback.arg).from_device] = "Failed"
    /\ fired.callback.arg \in completed

\* C9: the run loop never processes an event whose timestamp is greater than
\* the configured duration, so the clock and the reported
\* simulation_time_seconds never exceed the duration; and the loop stops
\* exactly when the scheduler is empty, the next event's timestamp exceeds
\* the duration, or cancellation has been requested.
C9_ExitCondition ==
    \/ heap = {}
    \/ cancelled
    \/ \A ev \in heap : ev.timestamp > cfg.duration

C9_LoopBoundedByDuration ==
    /\ [](/\ current_time <= cfg.duration
          /\ Output(Eng).simulation_time_seconds <= cfg.duration)
    /\ [][Processed => fired'.timestamp <= cfg.duration]_vars
    /\ [][(pc \in {"loop", "pause_wait"} /\ pc' = "done") => C9_ExitCondition]_vars
    /\ [][(pc \in {"loop", "pause_wait"} /\ C9_ExitCondition)
          => pc' \in {"loop", "pause_wait", "done"}]_vars
    /\ [][(pc = "pause_wait" /\ C9_ExitCondition /\ ~paused /\ pc' # pc)
          => pc' = "done"]_vars

\* a run that ended because the next event lies beyond the duration
C9_Witness ==
    /\ pc = "done"
    /\ ~cancelled
    /\ event_count > 2
    /\ heap # {}
    /\ \A ev \in heap : ev.timestamp > cfg.duration

\* C10: once cancel() has set the flag, no loop iteration that begins
\* afterwards processes an event: with the flag set at the loop test or in
\* the pause loop, the only way on is out of the loop, the pause does not
\* hold the loop back, and the counts of the result are those reached when
\* the loop was left.
C10_Cancellation ==
    /\ [][(cancelled /\ pc \in {"created", "loop", "pause_wait", "done"})
          => (/\ event_count' = event_count
              /\ fired' = fired
              /\ pc' \notin {"sleeping", "process"})]_vars
    /\ [][(cancelled /\ pc \in {"loop", "pause_wait"} /\ pc' # pc)
          => pc' = "done"]_vars
    /\ [](cancelled /\ pc \in {"loop", "pause_wait"} => ENABLED (LoopTest \/ PauseWait))
    /\ [](pc = "done" => /\ Output(Eng).total_events = event_count
                         /\ Output(Eng).state_history = history)

\* a run cancelled while it was paused, with events still pending
C10_Witness ==
    /\ pc = "done"
    /\ cancelled
    /\ paused
    /\ heap # {}
    /\ event_count > 0

\* C15: a flow with a required gate that is false or absent never holds
\* capacity on any device, is never counted as executed, never has a
\* completion pending and never completes; each of its attempts leaves the
\* devices' states, the history and the active-flow sets alone and only
\* replaces the fired event by one further attempt of the same flow exactly
\* one gate-retry delay (1 s) later.
C15_Gated(f) ==
    \E g \in FlowConfig(cfg, f).required_gates :
        g \notin DOMAIN cfg.gates \/ cfg.gates[g] = FALSE

C15_GatedFlowNeverRuns ==
    /\ [](\A f \in FlowIds : C15_Gated(f) =>
              /\ \A d \in Devices : f \notin active[d]
              /\ f \notin completed
              /\ flow_executions[f] = 0
              /\ Pending("complete_flow", f) = {})
    /\ [][(/\ Processed
           /\ fired'.callback.kind = "execute_flow"
           /\ C15_Gated(fired'.callback.arg))
          => (/\ active' = active
              /\ states' = states
              /\ history' = history
              /\ completed' = completed
              /\ flow_executions' = flow_executions
              /\ \E ev \in heap' \ heap :
                     /\ heap' = (heap \ {fired'}) \cup {ev}
                     /\ ev.timestamp = fired'.timestamp + 1
                     /\ ev.timestamp = current_time' + GATE_RETRY_DELAY_SECONDS
                     /\ ev.callback = ExecuteCallback(fired'.callback.arg))]_vars

\* a gated flow was attempted again after another flow had completed, and
\* its next attempt is pending
C15_Witness ==
    \E f \in FlowIds :
        /\ C15_Gated(f)
        /\ fired.callback.arg = f
        /\ fired.event_id[1] = "flow_gate_retry"
        /\ completed # {}
        /\ Pending("execute_flow", f) # {}

\* C17: no phantom reservation.  An attempt of a flow that meets a closed
\* gate, an incomplete dependency, a full destination, a full source, or a
\* destination that fails after the source was acquired ends in a retry; and
\* every attempt that ends in a retry leaves the active-flow sets of all
\* devices as they were, also when from_device equals to_device and when the
\* flow is already in flight, and schedules exactly one event: the next
\* attempt of that flow at now + 1 s.
C17_Full(d) == Cardinality(active[d]) >= DeviceConfig(cfg, d).capacity

C17_Blocked(f) ==
    LET flow == FlowConfig(cfg, f)
    IN \/ C15_Gated(f)
       \/ ~DependenciesCompleted(f)
       \/ C17_Full(flow.to_device)
       \/ C17_Full(flow.from_device)
       \/ /\ flow.from_device = flow.to_device
          /\ f \notin active[flow.from_device]
          /\ Cardinality(active[flow.from_device]) + 1
                 >= DeviceConfig(cfg, flow.from_device).capacity

C17_NoPhantomReservation ==
    [][(Processed /\ fired'.callback.kind = "execute_flow")
        => LET f == fired'.callback.arg
               new == heap' \ heap
           IN /\ (C17_Blocked(f) /\ f \notin completed)
                    => \E ev \in new : ev.callback = ExecuteCallback(f)
              /\ (\E ev \in new : ev.callback.kind = "execute_flow")
                    => /\ active' = active
                       /\ \E ev \in new :
                              /\ heap' = (heap \ {fired'}) \cup {ev}
                              /\ ev.callback = ExecuteCallback(f)
                              /\ ev.timestamp = current_time' + 1]_vars

\* an attempt that acquired the source and then failed on the destination
\* was retried, and the retry failed the same way
C17_Witness ==
    /\ fired.event_id[1] = "flow_dest_capacity_retry"
    /\ \E ev \in heap : /\ ev.event_id[1] = "flow_dest_capacity_retry"
                         /\ ev.callback.arg = fired.callback.arg
    /\ \A d \in Devices : fired.callback.arg \notin active[d]

\* C20: summary.total_flows_completed counts the flow completions of the
\* run: it grows by one in exactly the steps in which a flow's completion
\* event fires and the flow is marked completed, and in no other step (an
\* attempt deferred by backpressure or missing capacity is not counted), so
\* that at the end of every run it equals the number of completions.
C20_Completion ==
    /\ Processed
    /\ fired'.callback.kind = "complete_flow"
    /\ fired'.callback.arg \in completed'

C20_TotalFlowsCompleted ==
    [][Output(Eng)'.total_flows_completed
         = Output(Eng).total_flows_completed + (IF C20_Completion THEN 1 ELSE 0)]_vars

\* C11: the wall-clock wait before the next event is interruptible by
\* cancel(): when cancel() was called while the run loop was blocked waiting
\* for an event, no event is processed after the cancellation was requested.
C11_SleepInterruptible ==
    [][(ret.op = "cancel" /\ ret.arg = <<"sleeping">>)
          => event_count' = event_count]_vars

(***************************************************************************)
(* An EventScheduler driven directly, as the unit tests drive it: schedule, *)
(* cancel, peek_next and process_next in any order, with callbacks that do *)
(* nothing or schedule a further event from inside process_next.           *)
(***************************************************************************)
EventNames == {"a", "b"}

TestCallbacks ==
    { [kind |-> "none", arg |-> "x", n |-> 0],
      [kind |-> "schedule", arg |-> "x", n |-> 0],
      [kind |-> "schedule", arg |-> "x", n |-> 1] }

\* a component under test stands alone: no engine has registered a recovery
\* callback with it, and the configuration has no flows
TestConfig ==
    Config(<<>>, 1, 1, 0,
           [duration |-> MaxDuration, execution_mode |-> "accelerated",
            has_speed_multiplier |-> TRUE, speed_multiplier |-> 0])

InitTest ==
    /\ StartsAs([NewEngine(TestConfig) EXCEPT !.recovery_callback = FALSE])
    /\ twin = NewEngine(TestConfig)
    /\ failures = 0
    /\ wall = 0
    /\ detector = NoDetector
    /\ returned = <<>>
    /\ ret = NoCall

\* scheduler.schedule(timestamp, event_id, callback)
ScheduleCall(timestamp, name, callback) ==
    /\ insertion_counter < MaxCalls
    /\ LET e == Schedule(Eng, timestamp, <<"evt", name, 0>>, callback)
       IN /\ Becomes([e EXCEPT !.exc = NoExc])
          /\ ret' = [op |-> "schedule", arg |-> <<timestamp, name>>,
                     result |-> e.exc]
    /\ UNCHANGED <<failures, wall, twin>>

\* scheduler.cancel(event_id)
CancelEventCall(name) ==
    /\ Becomes(Cancel(Eng, <<"evt", name, 0>>))
    /\ ret' = [op |-> "cancel", arg |-> <<name>>,
               result |-> IF CancelResult(Eng, <<"evt", name, 0>>)
                          THEN "True" ELSE "False"]
    /\ UNCHANGED <<failures, wall, twin>>

\* scheduler.peek_next()
PeekCall ==
    /\ \E top \in (IF heap = {} THEN {NoEvent} ELSE HeapTop(heap)) :
           ret' = [op |-> "peek_next", arg |-> <<>>, result |-> top.event_id]
    /\ Becomes(Eng)
    /\ UNCHANGED <<failures, wall, twin>>

\* scheduler.process_next()
ProcessNextCall ==
    /\ \E e \in ProcessNext(Eng) :
           /\ Becomes([e EXCEPT !.exc = NoExc])
           /\ ret' = [op |-> "process_next", arg |-> <<>>, result |-> e.exc]
    /\ UNCHANGED <<failures, wall, twin>>

NextSched ==
    \/ \E timestamp \in 0..MaxTimestamp, name \in EventNames,
          callback \in TestCallbacks : ScheduleCall(timestamp, name, callback)
    \/ \E name \in EventNames : CancelEventCall(name)
    \/ PeekCall
    \/ ProcessNextCall

SpecSched == InitTest /\ [][NextSched]_vars

\* C6: process_next executes the pending event with the smallest timestamp
\* and, among pending events with equal timestamps, the one scheduled first;
\* an event scheduled later, also from inside a callback at the current
\* time, has a larger insertion number than every event already pending.
C6_Before(a, b) ==
    \/ a.timestamp < b.timestamp
    \/ a.timestamp = b.timestamp /\ a.insertion_order < b.insertion_order

C6_EventOrdering ==
    /\ [][(ret'.op = "process_next" /\ heap # {})
          => (/\ fired' \in heap
              /\ \A other \in heap \ {fired'} : C6_Before(fired', other))]_vars
    /\ [][\A new \in heap' \ heap : \A old \in heap :
              old.insertion_order < new.insertion_order]_vars

\* process_next ran a callback that scheduled an event at the current time
\* while an older event was pending at that same timestamp
C6_Witness ==
    /\ ret.op = "process_next"
    /\ fired.callback.kind = "schedule"
    /\ \E new \in heap, old \in heap :
           /\ new.event_id[1] = "nested"
           /\ new.timestamp = current_time
           /\ new.insertion_order > old.insertion_order
           /\ old.timestamp = current_time
           /\ old.insertion_order > fired.insertion_order

\* C7: over any sequence of schedule, cancel, peek_next and process_next
\* calls the clock never decreases, and every pending event has a timestamp
\* greater than or equal to the clock.
C7_ClockMonotonic ==
    /\ [][current_time' >= current_time]_vars
    /\ [](\A ev \in heap : ev.timestamp >= current_time)

\* the clock has advanced and an event scheduled by a callback is pending
C7_Witness ==
    /\ current_time > 0
    /\ \E ev \in heap : ev.event_id[1] = "nested"
    /\ \E ev \in heap : ev.timestamp = current_time

\* C8: schedule with a timestamp below the clock fails and leaves the
\* pending events, the registry, the clock and the insertion counter
\* unchanged; with a timestamp at or above the clock it succeeds and the
\* event is pending.
C8_ScheduleInThePast ==
    [][ret'.op = "schedule" =>
        IF ret'.arg[1] < current_time
        THEN /\ ret'.result = "ValueError"
             /\ UNCHANGED <<heap, registry, current_time, insertion_counter>>
        ELSE /\ ret'.result = NoExc
             /\ insertion_counter' = insertion_counter + 1
             /\ current_time' = current_time
             /\ \E ev \in heap' \ heap :
                    /\ ev.timestamp = ret'.arg[1]
                    /\ ev.event_id = <<"evt", ret'.arg[2], 0>>
                    /\ heap' = heap \cup {ev}
                    /\ registry'[ev.event_id] = ev]_vars

\* a schedule call in the past was refused while events were pending
C8_Witness ==
    /\ ret.op = "schedule"
    /\ ret.result = "ValueError"
    /\ heap # {}
    /\ current_time > 0

(***************************************************************************)
(* A StateManager driven directly: transition(device, event) for any       *)
(* device and any of the six events, in any order.                         *)
(***************************************************************************)
\* mgr.transition(device_id, event)
TransitionCall(d, event) ==
    /\ Len(history) < MaxHistory \/ ~TransitionAllowed(states[d], event)
    /\ LET e == Transition(Eng, d, event)
       IN /\ Becomes([e EXCEPT !.exc = NoExc])
          /\ ret' = [op |-> "transition", arg |-> <<d, event>>,
                     result |-> IF e.exc # NoExc THEN e.exc ELSE e.states[d]]
    /\ UNCHANGED <<failures, wall, twin>>

NextStates == \E d \in Devices, event \in TransitionEvents : TransitionCall(d, event)

SpecStates == InitTest /\ [][NextStates]_vars

\* C4: transition(device, event) succeeds and moves the device to the
\* documented next state exactly when (state, event) is one of the eight
\* rows of the transition table; every other pair fails with
\* InvalidTransitionError and leaves the device's state unchanged.
C4_Table ==
    { <<"Idle", "START_PROCESSING", "Processing">>,
      <<"Idle", "FAILURE_DETECTED", "Failed">>,
      <<"Processing", "COMPLETE_PROCESSING", "Idle">>,
      <<"Processing", "FAILURE_DETECTED", "Failed">>,
      <<"Processing", "BACKPRESSURE_DETECTED", "Blocked">>,
      <<"Blocked", "BACKPRESSURE_CLEARED", "Idle">>,
      <<"Blocked", "FAILURE_DETECTED", "Failed">>,
      <<"Failed", "RECOVERY_COMPLETE", "Idle">> }

C4_TransitionTable ==
    [][ret'.op = "transition" =>
        LET d == ret'.arg[1]
            event == ret'.arg[2]
            rows == {r \in C4_Table : r[1] = states[d] /\ r[2] = event}
        IN IF rows # {}
           THEN /\ \A r \in rows : states'[d] = r[3] /\ ret'.result = r[3]
                /\ \A o \in Devices \ {d} : states'[o] = states[o]
                /\ Len(history') = Len(history) + 1
           ELSE /\ ret'.result = "InvalidTransitionError"
                /\ states' = states
                /\ history' = history]_vars

\* an event outside its row was refused for a device that is Blocked
C4_Witness ==
    /\ ret.op = "transition"
    /\ ret.result = "InvalidTransitionError"
    /\ states[ret.arg[1]] = "Blocked"
    /\ \E d \in Devices : states[d] = "Failed"

(***************************************************************************)
(* Two engines built from the same configuration, each run by its own      *)
(* thread, with no cancel, pause or failure submitted from outside.        *)
(***************************************************************************)
\* one step of the thread inside run() of engine e: the engines and the wall
\* clocks it can leave behind
RunSteps(e, now) ==
    CASE e.pc = "created" -> {<<RunStart(e, now), now>>}
      [] e.pc = "loop" -> {<<LoopHead(e), now>>}
      [] e.pc = "pause_wait" ->
             {<<AfterPause(e, next_event, now), now>> : next_event \in HeapTop(e.heap)}
      [] e.pc = "sleeping" -> {<<[e EXCEPT !.pc = "process"], Max(now, e.wake_at)>>}
      [] e.pc = "process" -> {<<n, now>> : n \in ProcessAndCount(e)}
      [] OTHER -> {}

\* a step of the first engine
FirstStep ==
    /\ \E step \in RunSteps(Eng, wall) : Becomes(step[1]) /\ wall' = step[2]
    /\ UNCHANGED <<failures, twin, ret>>

\* a step of the second engine
TwinStep ==
    /\ \E step \in RunSteps(twin, wall) : twin' = step[1] /\ wall' = step[2]
    /\ Becomes(Eng)
    /\ UNCHANGED <<failures, ret>>

NextTwin == FirstStep \/ TwinStep

SpecTwin == Init /\ [][NextTwin]_vars

(***************************************************************************)
(* Runs of single scenarios, undisturbed from outside: the engine is built *)
(* from the scenario's configuration (or the configuration is refused) and *)
(* runs to its end.                                                        *)
(***************************************************************************)
\* the "simulation" section of the scenarios: accelerated mode, seed 42 and
\* no speed_multiplier key
Scenario(duration, devices, flows) ==
    [duration |-> duration,
     random_seed |-> 42,
     execution_mode |-> "accelerated",
     has_speed_multiplier |-> FALSE,
     speed_multiplier |-> 0,
     devices |-> devices,
     flows |-> flows,
     gates |-> [g \in {} |-> TRUE]]

Device(id, capacity) ==
    [id |-> id, capacity |-> capacity, recovery_time_range |-> <<>>,
     required_gates |-> {}]

\* two devices of capacity 1 and two flows towards each other's device that
\* take longer than the 300 s timeout threshold, in a run of 400 s
TimeoutScenario ==
    Scenario(400, <<Device("D1", 1), Device("D2", 1)>>,
             << Flow("F1", "D1", "D2", <<500, 501>>, {}, {}, "parallel", 0),
                Flow("F2", "D2", "D1", <<500, 501>>, {}, {}, "custom", 1) >>)

\* three devices of capacity 1 and long-running flows D1->D2, D2->D3, D3->D1
CircularScenario ==
    Scenario(400, <<Device("D1", 1), Device("D2", 1), Device("D3", 1)>>,
             << Flow("F1", "D1", "D2", <<100, 101>>, {}, {}, "parallel", 0),
                Flow("F2", "D2", "D3", <<100, 101>>, {}, {}, "custom", 1),
                Flow("F3", "D3", "D1", <<100, 101>>, {}, {}, "custom", 2) >>)

\* a source device that requires a gate which is closed, and a flow that
\* requires no gate itself
GatedDeviceScenario ==
    [Scenario(10, << [Device("D1", 1) EXCEPT !.required_gates = {"QC_Pass"}],
                     Device("D2", 1) >>,
              << Flow("F1", "D1", "D2", <<2, 3>>, {}, {}, "parallel", 0) >>)
        EXCEPT !.gates = [g \in {"QC_Pass"} |-> FALSE]]

\* device A (D1) of capacity 2, device B (D2) of capacity 1 and three flows
\* A->B that start in parallel and take about 100 s each, for every seed
BackpressureScenarios ==
    { [Scenario(400, <<Device("D1", 2), Device("D2", 1)>>,
                << Flow("F1", "D1", "D2", <<100, 101>>, {}, {}, "parallel", 0),
                   Flow("F2", "D1", "D2", <<100, 101>>, {}, {}, "parallel", 0),
                   Flow("F3", "D1", "D2", <<100, 101>>, {}, {}, "parallel", 0) >>)
          EXCEPT !.random_seed = seed] : seed \in Seeds \cup {42} }

\* two devices and one flow A->B (D1->D2) with process_time_range (10, 10)
\* and seed 42
EndToEndScenario ==
    Scenario(100, <<Device("D1", 1), Device("D2", 1)>>,
             << Flow("F1", "D1", "D2", <<10, 10>>, {}, {}, "parallel", 0) >>)

\* the same with the nearest range that has min < max, for every seed
EndToEndAccepted ==
    { [EndToEndScenario EXCEPT !.flows[1].process_time_range = <<10, 11>>,
                               !.random_seed = seed] : seed \in Seeds \cup {42} }

\* a flow dictionary without the key offset_mode
WithoutOffsetMode(flow) == [k \in DOMAIN flow \ {"offset_mode"} |-> flow[k]]

\* a second and a third flow beside F1 in each offset mode, or with no
\* offset_mode key: without dependencies or depending on the flow before
\* them, the custom flows with a start_offset of 0 or 2
StartupFlows(id, from, to, dep) ==
    LET flows == { Flow(id, from, to, <<1, 2>>, deps, {}, mode, 0) :
                       deps \in {{}, {dep}}, mode \in {"parallel", "sequence", "custom"} }
                 \cup { Flow(id, from, to, <<1, 2>>, deps, {}, "custom", 2) :
                           deps \in {{}, {dep}} }
    IN flows \cup {WithoutOffsetMode(f) : f \in {g \in flows : g.offset_mode = "parallel"}}

StartupScenarios ==
    { Scenario(MaxDuration, <<Device("D1", 1), Device("D2", 1)>>,
               << Flow("F1", "D1", "D2", <<1, 2>>, {}, {}, "parallel", 0), f2, f3 >>) :
        f2 \in StartupFlows("F2", "D2", "D1", "F1"),
        f3 \in StartupFlows("F3", "D1", "D2", "F2") }

\* a flow dictionary without the key process_time_range
WithoutProcessTime(flow) == [k \in DOMAIN flow \ {"process_time_range"} |-> flow[k]]

\* a flow D1->D2 without process_time_range, which validation lets through,
\* beside a well-formed flow between the same devices (capacity 1 or 2)
FaultScenarios ==
    { Scenario(MaxDuration, <<Device("D1", cap1), Device("D2", cap2)>>,
               << WithoutProcessTime(Flow("F1", "D1", "D2", <<>>, {}, {}, "parallel", 0)),
                  Flow("F2", "D1", "D2", <<1, 2>>, {}, {}, mode, 1) >>) :
        cap1 \in Capacities, cap2 \in Capacities, mode \in {"parallel", "custom"} }

\* a device dictionary with the key initial_state, beside a device without it
InitialStateScenarios ==
    { Scenario(MaxDuration,
               << [k \in DOMAIN Device("D1", 1) \cup {"initial_state"} |->
                      IF k = "initial_state" THEN initial_state
                      ELSE Device("D1", 1)[k]],
                  Device("D2", 1) >>,
               << Flow("F1", "D1", "D2", <<1, 2>>, {}, {}, "parallel", 0) >>) :
        initial_state \in DeviceState }

\* one device of capacity 1 or 2 and one flow from the device to itself
SelfFlowScenarios ==
    { Scenario(MaxDuration, <<Device("D1", capacity)>>,
               << Flow("F1", "D1", "D1", <<1, 2>>, {}, {}, "parallel", 0) >>) :
        capacity \in Capacities }

Scenarios ==
    {TimeoutScenario, CircularScenario, GatedDeviceScenario, EndToEndScenario}
        \cup BackpressureScenarios \cup EndToEndAccepted \cup StartupScenarios
        \cup FaultScenarios \cup InitialStateScenarios \cup SelfFlowScenarios

InitScenario ==
    /\ \E c \in Scenarios : StartsAs(Construct(c)) /\ twin = Construct(c)
    /\ failures = 0
    /\ wall = 0
    /\ detector = NoDetector
    /\ returned = <<>>
    /\ ret = NoCall

NextScenario ==
    \/ Start
    \/ LoopTest
    \/ PauseWait
    \/ Wake
    \/ Process

SpecScenario == InitScenario /\ [][NextScenario]_vars

\* C13: deadlock detection by timeout.  The run of the two-device scenario
\* stops with a deadlock outcome, and its result carries the deadlock status
\* and an error block whose involved devices include both D1 and D2.
C13_TimeoutDeadlock ==
    (cfg = TimeoutScenario /\ pc = "done")
        => LET output == Output(Eng)
           IN /\ "status" \in DOMAIN output
              /\ output.status = "deadlock_detected"
              /\ "error" \in DOMAIN output
              /\ {"D1", "D2"} \subseteq output.error.deadlock_info.involved_devices

\* C14: deadlock detection by cycle.  The run of the three-device scenario
\* yields a DeadlockInfo of type CircularWait whose wait_chain contains all
\* three devices.
C14_CircularWait ==
    (cfg = CircularScenario /\ pc = "done")
        => LET output == Output(Eng)
           IN /\ "error" \in DOMAIN output
              /\ output.error.deadlock_info.deadlock_type = "CircularWait"
              /\ {"D1", "D2", "D3"}
                     \subseteq {output.error.deadlock_info.wait_chain[i] :
                                   i \in DOMAIN output.error.deadlock_info.wait_chain}

\* C16: device gates.  No flow holds capacity on, or has started processing
\* on, a source device whose required_gates contains a gate that is not true
\* in the gates map.
C16_DeviceGates ==
    \A i \in 1..Len(cfg.flows) :
        LET flow == cfg.flows[i]
            device == DeviceConfig(cfg, flow.from_device)
        IN (\/ flow.flow_id \in active[flow.from_device]
            \/ flow_executions[flow.flow_id] > 0
            \/ Pending("complete_flow", flow.flow_id) # {})
           => \A g \in device.required_gates :
                  g \in DOMAIN cfg.gates /\ cfg.gates[g] = TRUE

\* C18: backpressure.  In the scenario with A of capacity 2, B of capacity 1
\* and three flows A->B starting at t=0: a flow that starts at t=0 is the
\* only one that has started; a flow that starts later starts when B holds
\* no flow and an earlier flow has completed, and its start is preceded by a
\* BACKPRESSURE_CLEARED transition of A at that time; and the run ends with
\* all three flows completed, exactly one of them started at t=0, and A
\* moved to Blocked at t=0.
C18_Starts(f) == Pending("complete_flow", f) = {} /\ Pending("complete_flow", f)' # {}

C18_Transition(device_id, event, timestamp) ==
    {i \in 1..Len(history) : /\ history[i].device_id = device_id
                               /\ history[i].event = event
                               /\ history[i].timestamp = timestamp}

C18_Backpressure ==
    /\ [][(cfg \in BackpressureScenarios) =>
            \A f \in FlowIds : C18_Starts(f) =>
                IF current_time' = 0
                THEN \A g \in FlowIds \ {f} :
                         /\ Pending("complete_flow", g) = {}
                         /\ g \notin completed
                         /\ g \notin active'["D1"] \cup active'["D2"]
                ELSE /\ active["D2"] = {}
                     /\ completed # {}
                     /\ fired'.event_id[1] = "flow_backpressure_retry"
                     /\ Len(history') = Len(history) + 2
                     /\ history'[Len(history) + 1].device_id = "D1"
                     /\ history'[Len(history) + 1].event = "BACKPRESSURE_CLEARED"
                     /\ history'[Len(history) + 1].timestamp = current_time'
                     /\ history'[Len(history) + 2].event = "START_PROCESSING"]_vars
    /\ []((cfg \in BackpressureScenarios /\ pc = "done") =>
            /\ completed = FlowIds
            /\ Cardinality(C18_Transition("D1", "START_PROCESSING", 0)) = 1
            /\ Cardinality({i \in 1..Len(history) :
                               history[i].event = "START_PROCESSING"}) = 3
            /\ C18_Transition("D1", "BACKPRESSURE_DETECTED", 0) # {})

\* the backpressure scenario has run to its end
C18_Witness ==
    /\ cfg \in BackpressureScenarios
    /\ pc = "done"
    /\ completed = FlowIds
    /\ heap = {}

\* the run of the end-to-end scenario as the claim describes it, with the
\* completion at time t
C19_Run(t) ==
    /\ history = << [device_id |-> "D1", from_state |-> "Idle",
                     to_state |-> "Processing", event |-> "START_PROCESSING",
                     timestamp |-> 0],
                    [device_id |-> "D1", from_state |-> "Processing",
                     to_state |-> "Idle", event |-> "COMPLETE_PROCESSING",
                     timestamp |-> t] >>
    /\ Output(Eng).total_flows_completed = 1
    /\ Output(Eng).simulation_time_seconds = t

PauseConfigs ==
    {c \in Configs : c.random_seed = 0 /\ DeviceConfig(c, "D2").capacity = 1}

InitPause ==
    /\ \E c \in PauseConfigs : StartsAs(NewEngine(c)) /\ twin = NewEngine(c)
    /\ failures = 0
    /\ wall = 0
    /\ detector = NoDetector
    /\ returned = <<>>
    /\ ret = NoCall

\* the undisturbed engine takes a step when it has processed fewer events
\* than the other, or when the other's run has ended
TwinFollows ==
    /\ twin.event_count < event_count \/ pc = "done"
    /\ TwinStep

NextPause ==
    \/ Start
    \/ LoopTest
    \/ PauseWait
    \/ Wake
    \/ Process
    \/ PauseCall
    \/ ResumeCall
    \/ CancelCall
    \/ TwinFollows

SpecPause == InitPause /\ [][NextPause]_vars

C3_Determinism ==
    /\ (pc # "created" /\ twin.pc # "created" /\ event_count = twin.event_count)
           => /\ fired = twin.fired
              /\ current_time = twin.current_time
              /\ history = twin.history
              /\ heap = twin.heap
              /\ flow_executions = twin.flow_executions
    /\ (pc = "done" /\ twin.pc = "done")
           => /\ Output(Eng).total_events = Output(twin).total_events
              /\ Output(Eng).simulation_time_seconds
                     = Output(twin).simulation_time_seconds
              /\ Output(Eng).state_history = Output(twin).state_history
              /\ Output(Eng) = Output(twin)

\* both runs have ended after several events, durations were sampled and
\* transitions recorded, and events were still pending at the end
C3_Witness ==
    /\ pc = "done"
    /\ twin.pc = "done"
    /\ event_count > 3
    /\ rng_calls > 1
    /\ Len(history) > 2
    /\ heap # {}

(***************************************************************************)
(* The flow controller on its own: FlowController(flows, devices) is       *)
(* constructed from a list of flows whose dependency lists range over      *)
(* every shape of graph on four flows, and over references to a flow or a  *)
(* device that does not exist.                                             *)
(***************************************************************************)
MaxDeps == 2              \* longest dependency list of a flow under test

GraphFlowIds == <<"A", "B", "C", "D">>

\* the dependency lists: no dependency, lists of distinct known flows, and a
\* reference to a flow that is not in the list of flows
DependencyLists ==
    LET ids == {GraphFlowIds[i] : i \in 1..Len(GraphFlowIds)}
    IN {deps \in UNION {[1..n -> ids] : n \in 0..MaxDeps} :
            \A i, j \in 1..Len(deps) : i # j => deps[i] # deps[j]}
       \cup {<<"Z">>}

GraphFlows ==
    { [i \in 1..Len(GraphFlowIds) |->
          [flow_id |-> GraphFlowIds[i], from_device |-> "D1", to_device |-> "D2",
           dependencies |-> deps[i]]] :
        deps \in [1..Len(GraphFlowIds) -> DependencyLists] }

\* self._flows: the flow with a given id
FlowOf(flows, flow_id) ==
    flows[CHOOSE i \in 1..Len(flows) : flows[i].flow_id = flow_id]

RECURSIVE HasCycle(_, _, _)
RECURSIVE HasCycleFrom(_, _, _, _)
RECURSIVE HasCycleFromVisited(_, _, _, _)

\* the loop over the dependencies of flow_id with 'elif dep in rec_stack'
\* replaced by 'else': any dependency visited before counts as a cycle
HasCycleFromVisited(flows, st, flow_id, i) ==
    LET deps == FlowOf(flows, flow_id).dependencies
    IN IF i > Len(deps)
       THEN [st EXCEPT !.rec_stack = @ \ {flow_id}, !.found = FALSE]
       ELSE IF deps[i] \notin st.visited
            THEN LET r == HasCycle(flows, st, deps[i])
                 IN IF r.found THEN r
                    ELSE HasCycleFromVisited(flows, r, flow_id, i + 1)
            ELSE [st EXCEPT !.found = TRUE]

\* the loop 'for dep in deps' of has_cycle, from the i-th dependency on;
\* st is the pair of sets visited and rec_stack shared by all the calls
HasCycleFrom(flows, st, flow_id, i) ==
    LET deps == FlowOf(flows, flow_id).dependencies
    IN IF i > Len(deps)
       THEN [st EXCEPT !.rec_stack = @ \ {flow_id}, !.found = FALSE]
       ELSE IF deps[i] \notin st.visited
            THEN LET r == HasCycle(flows, st, deps[i])
                 IN IF r.found THEN r
                    ELSE HasCycleFrom(flows, r, flow_id, i + 1)
            ELSE IF deps[i] \in st.rec_stack
                 THEN [st EXCEPT !.found = TRUE]
                 ELSE HasCycleFrom(flows, st, flow_id, i + 1)

\* has_cycle(flow_id)
HasCycle(flows, st, flow_id) ==
    HasCycleFrom(flows,
                 [st EXCEPT !.visited = @ \cup {flow_id},
                            !.rec_stack = @ \cup {flow_id}],
                 flow_id, 1)

RECURSIVE CheckCircularFrom(_, _, _)
\* the loop 'for flow_id in self._flows' of _check_circular_dependencies
CheckCircularFrom(flows, st, i) ==
    IF i > Len(flows) THEN NoExc
    ELSE IF flows[i].flow_id \in st.visited
         THEN CheckCircularFrom(flows, st, i + 1)
         ELSE LET r == HasCycle(flows, st, flows[i].flow_id)
              IN IF r.found THEN "Circular dependency"
                 ELSE CheckCircularFrom(flows, r, i + 1)

CheckCircularDependencies(flows) ==
    CheckCircularFrom(flows, [visited |-> {}, rec_stack |-> {}, found |-> FALSE], 1)

\* FlowController(flows, devices): the error raised by _validate, if any
ValidateFlows(flows, devices) ==
    LET known == {devices[i] : i \in 1..Len(devices)}
        ids == {flows[i].flow_id : i \in 1..Len(flows)}
    IN IF \E i \in 1..Len(flows) :
              flows[i].from_device \notin known \/ flows[i].to_device \notin known
       THEN "unknown device"
       ELSE IF \E i \in 1..Len(flows) : \E k \in 1..Len(flows[i].dependencies) :
                   flows[i].dependencies[k] \notin ids
            THEN "unknown flow dependency"
            ELSE CheckCircularDependencies(flows)

InitFlows ==
    /\ StartsAs([NewEngine(TestConfig) EXCEPT !.recovery_callback = FALSE])
    /\ twin = NewEngine(TestConfig)
    /\ failures = 0
    /\ wall = 0
    /\ detector = NoDetector
    /\ returned = <<>>
    /\ \E flows \in GraphFlows, devices \in {<<"D1", "D2">>, <<"D1">>} :
           ret = [op |-> "flows", arg |-> <<flows, devices>>, result |-> "none"]

FlowControllerCall ==
    /\ ret.op = "flows"
    /\ ret' = [op |-> "FlowController", arg |-> ret.arg,
               result |-> ValidateFlows(ret.arg[1], ret.arg[2])]
    /\ Becomes(Eng)
    /\ UNCHANGED <<failures, wall, twin>>

NextFlows == FlowControllerCall

SpecFlows == InitFlows /\ [][NextFlows]_vars

\* the flows listed as a dependency by some flow of S
C21_Deps(flows, S) ==
    {FlowOf(flows, f).dependencies[k] :
        <<f, k>> \in {p \in S \X (1..MaxDeps) :
                          p[2] <= Len(FlowOf(flows, p[1]).dependencies)}}

\* flow_id is reached from itself along one dependency or more
C21_OnCycle(flows, flow_id) ==
    LET r1 == C21_Deps(flows, {flow_id})
        r2 == r1 \cup C21_Deps(flows, r1)
        r3 == r2 \cup C21_Deps(flows, r2)
        r4 == r3 \cup C21_Deps(flows, r3)
    IN flow_id \in r4

\* C21: with every device and dependency reference valid, the construction
\* of the flow controller fails with the circular-dependency error exactly
\* when some flow reaches itself along one or more dependencies (itself, or
\* a cycle of any length); an acyclic graph, diamonds included, is accepted.
C21_CycleDetection ==
    ret.op = "FlowController" =>
        LET flows == ret.arg[1]
            devices == ret.arg[2]
            valid == /\ Len(devices) = 2
                     /\ \A i \in 1..Len(flows) : flows[i].dependencies # <<"Z">>
            cyclic == \E i \in 1..Len(flows) : C21_OnCycle(flows, flows[i].flow_id)
        IN valid => /\ cyclic <=> ret.result = "Circular dependency"
                    /\ ~cyclic <=> ret.result = NoExc

\* a cycle of three flows (A on B, B on C, C on A) was refused
C21_Witness ==
    /\ ret.op = "FlowController"
    /\ Len(ret.arg[2]) = 2
    /\ [i \in 1..4 |-> ret.arg[1][i].dependencies] = <<<<"B">>, <<"C">>, <<"A">>, <<>>>>
    /\ ret.result = "Circular dependency"

(***************************************************************************)
(* ConfigManager(config).validate() on its own.  A raw configuration is a  *)
(* dictionary from section names to their contents, and any of the         *)
(* sections may be absent.                                                 *)
(***************************************************************************)
RequiredSections == {"simulation", "devices", "flows"}

RawSimulations ==
    { [duration |-> duration, random_seed |-> seed,
       execution_mode |-> "accelerated", has_speed_multiplier |-> FALSE,
       speed_multiplier |-> 0] :
        duration \in {0, 2}, seed \in {-1, 0} }

RawDeviceLists ==
    { <<Device("D1", 1), Device("D2", 1)>>,
      <<Device("D1", 1), Device("D1", 1)>>,
      <<Device("D1", 0), Device("D2", 1)>>,
      <<[Device("D1", 1) EXCEPT !.recovery_time_range = <<3, 1>>], Device("D2", 1)>>,
      <<[Device("D1", 1) EXCEPT !.required_gates = {"QC_Pass"}], Device("D2", 1)>> }

RawFlowLists ==
    { << Flow("F1", "D1", "D2", <<1, 2>>, {}, {}, "parallel", 0) >>,
      << Flow("F1", "D1", "D3", <<1, 2>>, {}, {}, "parallel", 0) >>,
      << Flow("F1", "D1", "D2", <<1, 2>>, {"F2"}, {}, "parallel", 0) >>,
      << Flow("F1", "D1", "D2", <<1, 2>>, {}, {}, "parallel", 0),
         Flow("F1", "D2", "D1", <<1, 2>>, {}, {}, "parallel", 0) >>,
      << Flow("F1", "D1", "D2", <<2, 1>>, {}, {}, "parallel", 0) >>,
      << Flow("F1", "D1", "D2", <<1, 2>>, {}, {"QC_Pass"}, "parallel", 0) >> }

\* the raw dictionaries: every choice of contents, restricted to every
\* choice of the sections that are present
RawConfigs ==
    { [k \in sections |->
          CASE k = "simulation" -> simulation
            [] k = "devices" -> devices
            [] k = "flows" -> flows
            [] k = "gates" -> [g \in {"QC_Pass"} |-> TRUE]] :
        sections \in SUBSET (RequiredSections \cup {"gates"}),
        simulation \in RawSimulations, devices \in RawDeviceLists,
        flows \in RawFlowLists }

MissingField ==
    [k \in RequiredSections |->
        CASE k = "simulation" -> "Missing required field: 'simulation'"
          [] k = "devices" -> "Missing required field: 'devices'"
          [] k = "flows" -> "Missing required field: 'flows'"]

\* self._config["gates"] = {} when the key is absent: the dictionary is the
\* caller's own object
GatesDefault(raw) ==
    IF "gates" \in DOMAIN raw THEN raw
    ELSE [k \in DOMAIN raw \cup {"gates"} |->
             IF k = "gates" THEN [g \in {} |-> TRUE] ELSE raw[k]]

\* the configuration as the rules after the first one read it
Sections(raw) ==
    [duration |-> raw["simulation"].duration,
     random_seed |-> raw["simulation"].random_seed,
     execution_mode |-> raw["simulation"].execution_mode,
     has_speed_multiplier |-> raw["simulation"].has_speed_multiplier,
     speed_multiplier |-> raw["simulation"].speed_multiplier,
     devices |-> raw["devices"],
     flows |-> raw["flows"],
     gates |-> raw["gates"]]

\* ConfigManager(raw).validate(): whether it raised, the errors of the
\* ValidationError, and the caller's dictionary after the call
Validate(raw) ==
    LET missing == {MissingField[k] : k \in RequiredSections \ DOMAIN raw}
        config == GatesDefault(raw)
    IN IF missing # {}
       THEN [raised |-> TRUE, errors |-> missing, config |-> config]
       ELSE [raised |-> ValidationErrors(Sections(config)) # {},
             errors |-> ValidationErrors(Sections(config)),
             config |-> config]

InitValidate ==
    /\ StartsAs([NewEngine(TestConfig) EXCEPT !.recovery_callback = FALSE])
    /\ twin = NewEngine(TestConfig)
    /\ failures = 0
    /\ wall = 0
    /\ detector = NoDetector
    /\ returned = <<>>
    /\ \E raw \in RawConfigs :
           ret = [op |-> "config", arg |-> <<raw>>, result |-> "none"]

ValidateCall ==
    /\ ret.op = "config"
    /\ ret' = [op |-> "validate", arg |-> ret.arg, result |-> Validate(ret.arg[1])]
    /\ Becomes(Eng)
    /\ UNCHANGED <<failures, wall, twin>>

NextValidate == ValidateCall

SpecValidate == InitValidate /\ [][NextValidate]_vars

\* the rules that the sections present in a raw configuration violate
C22_Violations(raw) ==
    LET has(k) == k \in DOMAIN raw
        devices == IF has("devices") THEN raw["devices"] ELSE <<>>
        flows == IF has("flows") THEN raw["flows"] ELSE <<>>
        gates == IF has("gates") THEN DOMAIN raw["gates"] ELSE {}
        ids(list) == {list[i].id : i \in 1..Len(list)}
        flow_ids == {flows[i].flow_id : i \in 1..Len(flows)}
    IN {MissingField[k] : k \in RequiredSections \ DOMAIN raw}
       \cup ErrorIf(\E i \in 1..Len(devices) : ~(devices[i].required_gates \subseteq gates),
                    "Device requires undefined gate")
       \cup ErrorIf(\E i \in 1..Len(flows) : ~(flows[i].required_gates \subseteq gates),
                    "Flow requires undefined gate")
       \cup ErrorIf(\E i, j \in 1..Len(devices) : i # j /\ devices[i].id = devices[j].id,
                    "Duplicate device IDs detected")
       \cup ErrorIf(\E i, j \in 1..Len(flows) : i # j /\ flows[i].flow_id = flows[j].flow_id,
                    "Duplicate flow IDs detected")
       \cup ErrorIf(has("devices") /\ \E i \in 1..Len(flows) :
                        \/ flows[i].from_device \notin ids(devices)
                        \/ flows[i].to_device \notin ids(devices),
                    "references unknown device")
       \cup ErrorIf(\E i \in 1..Len(devices) : devices[i].capacity < 1,
                    "Capacity must be >= 1")
       \cup ErrorIf(\E i \in 1..Len(flows) :
                        flows[i].process_time_range[2] <= flows[i].process_time_range[1],
                    "time range must have min < max")
       \cup ErrorIf(\E i \in 1..Len(devices) :
                        /\ devices[i].recovery_time_range # <<>>
                        /\ devices[i].recovery_time_range[2] <= devices[i].recovery_time_range[1],
                    "recovery range must have min < max")
       \cup ErrorIf(has("simulation") /\ raw["simulation"].random_seed < 0,
                    "Random seed must be >= 0")
       \cup ErrorIf(has("simulation") /\ raw["simulation"].duration <= 0,
                    "Duration must be > 0")
       \cup ErrorIf(\E i \in 1..Len(flows) : ~(flows[i].dependencies \subseteq flow_ids),
                    "references unknown flow")

\* C22: validate() returns the configuration when the input violates no
\* rule, and otherwise raises one ValidationError whose message lists every
\* rule that the input violates, not only the first one found.
C22_AllViolationsListed ==
    ret.op = "validate" =>
        /\ ret.result.raised <=> C22_Violations(ret.arg[1]) # {}
        /\ ret.result.raised => C22_Violations(ret.arg[1]) \subseteq ret.result.errors

\* C23: validate() leaves the caller's raw configuration as it was before
\* the call, whether it returns or raises, also when the gates section is
\* absent.
C23_SideEffectFree ==
    ret.op = "validate" => ret.result.config = ret.arg[1]

(***************************************************************************)
(* Startup scheduling, on the runs of the scenarios.                       *)
(***************************************************************************)
\* the start events of flow f in a heap
C24_StartEvents(h, f) ==
    {ev \in h : ev.callback.kind = "execute_flow" /\ ev.callback.arg = f.flow_id}

\* C24: when run() has scheduled the initial flows, the future event list
\* holds exactly one start event at t=0 for each parallel or sequence flow
\* without dependencies, exactly one at t=start_offset for each custom flow,
\* and none for a parallel or sequence flow with dependencies; a flow
\* without offset_mode counts as parallel.
C24_StartupScheduling ==
    [][(pc = "created" /\ pc' = "loop") =>
        \A i \in 1..Len(cfg.flows) :
            LET f == cfg.flows[i]
                mode == IF "offset_mode" \in DOMAIN f THEN f.offset_mode ELSE "parallel"
                starts == C24_StartEvents(heap', f)
            IN IF mode = "custom"
               THEN \E ev \in starts : starts = {ev} /\ ev.timestamp = f.start_offset
               ELSE IF f.dependencies = {}
                    THEN \E ev \in starts : starts = {ev} /\ ev.timestamp = 0
                    ELSE starts = {}]_vars

\* run() has scheduled the initial flows of a configuration whose second
\* flow has no offset_mode and a dependency (no start event) and whose third
\* flow is custom with a dependency and start_offset 2 (one event at t=2)
C24_Witness ==
    /\ pc = "loop"
    /\ event_count = 0
    /\ Len(cfg.flows) = 3
    /\ "offset_mode" \notin DOMAIN cfg.flows[2]
    /\ cfg.flows[2].dependencies = {"F1"}
    /\ C24_StartEvents(heap, cfg.flows[2]) = {}
    /\ "offset_mode" \in DOMAIN cfg.flows[3]
    /\ cfg.flows[3].offset_mode = "custom"
    /\ cfg.flows[3].dependencies = {"F2"}
    /\ \E ev \in heap : /\ C24_StartEvents(heap, cfg.flows[3]) = {ev}
                        /\ ev.timestamp = 2
    /\ \E ev \in heap : /\ C24_StartEvents(heap, cfg.flows[1]) = {ev}
                        /\ ev.timestamp = 0

(***************************************************************************)
(* Pacing of the run loop.                                                 *)
(***************************************************************************)
\* C25: the run loop waits on the wall clock before an event only in
\* real-time mode or when the configuration holds a speed_multiplier > 0;
\* in accelerated mode without a speed_multiplier it never waits.
C25_PacingDecision ==
    pc = "sleeping" =>
        \/ cfg.execution_mode = "real-time"
        \/ cfg.has_speed_multiplier /\ cfg.speed_multiplier > 0

(***************************************************************************)
(* Failure and recovery of a device during a run.                          *)
(***************************************************************************)
\* the recovery events of device d in a heap
C26_Recoveries(h, d) ==
    {ev \in h : ev.callback.kind = "complete_device_recovery" /\ ev.callback.arg = d}

\* C26: when a device enters Failed at time t, exactly one recovery event
\* is scheduled, at a time between t+min and t+max of its
\* recovery_time_range, and when that event fires with the device still
\* Failed the device becomes Idle by RECOVERY_COMPLETE; a device without
\* recovery_time_range gets no recovery event and, once Failed, stays Failed
\* whatever the run does afterwards.
C26_FailureRecovery ==
    /\ [][\A d \in DeviceIds(cfg) :
            (states[d] # "Failed" /\ states'[d] = "Failed") =>
                LET range == DeviceConfig(cfg, d).recovery_time_range
                    new == C26_Recoveries(heap', d) \ C26_Recoveries(heap, d)
                IN IF range = <<>>
                   THEN C26_Recoveries(heap', d) = {}
                   ELSE \E ev \in new :
                            /\ new = {ev}
                            /\ ev.timestamp >= current_time + range[1]
                            /\ ev.timestamp <= current_time + range[2]]_vars
    /\ [][\A d \in DeviceIds(cfg) :
            (/\ event_count' = event_count + 1
             /\ fired'.callback.kind = "complete_device_recovery"
             /\ fired'.callback.arg = d
             /\ states[d] = "Failed") =>
                /\ states'[d] = "Idle"
                /\ Len(history') = Len(history) + 1
                /\ history'[Len(history')].device_id = d
                /\ history'[Len(history')].event = "RECOVERY_COMPLETE"]_vars
    /\ [][\A d \in DeviceIds(cfg) :
            (states[d] = "Failed" /\ DeviceConfig(cfg, d).recovery_time_range = <<>>) =>
                states'[d] = "Failed" /\ C26_Recoveries(heap', d) = {}]_vars

\* D1 failed with flows in progress and came back to Idle when its recovery
\* event fired, one or two seconds after the failure
C26_Witness ==
    /\ fired.callback.kind = "complete_device_recovery"
    /\ fired.callback.arg = "D1"
    /\ states["D1"] = "Idle"
    /\ \E i \in 1..Len(history) :
           /\ history[i].device_id = "D1"
           /\ history[i].event = "FAILURE_DETECTED"
           /\ history[i].from_state = "Processing"
           /\ history[Len(history)].event = "RECOVERY_COMPLETE"
           /\ history[Len(history)].timestamp - history[i].timestamp \in {1, 2}

(***************************************************************************)
(* Fault isolation: a flow whose execution attempt raises.                 *)
(***************************************************************************)
\* C27: a flow that passed validation without a process_time_range is
\* abandoned when its execution attempt raises: it holds no capacity on its
\* source or destination device, its source device is not left in
\* Processing on its account (no other flow is in progress there), and the
\* run goes on with the other flows.
C27_FaultIsolation ==
    \A i \in 1..Len(cfg.flows) :
        LET flow == cfg.flows[i]
        IN ("process_time_range" \notin DOMAIN flow /\ pc # "raised") =>
               /\ flow.flow_id \notin active[flow.from_device]
               /\ flow.flow_id \notin active[flow.to_device]
               /\ states[flow.from_device] = "Processing" =>
                      \E f \in FlowIds \ {flow.flow_id} :
                          Pending("complete_flow", f) # {}

(***************************************************************************)
(* DeadlockDetector on its own, driven by a caller that registers blocked  *)
(* and unblocked devices, checks for deadlocks and resets the detector     *)
(* while the simulation clock stands or advances by half a second from    *)
(* one call to the next.  Times are counted in quarters of a second.  The  *)
(* number of the call is kept with the call in ret.  The dictionaries _blocked_since and _waiting_for are         *)
(* sequences of <<key, value>> pairs in insertion order, which is the      *)
(* order in which the code iterates over them; a set of devices waited    *)
(* for is iterated in one order, the same each time.                       *)
(***************************************************************************)
Resolution == 4           \* clock readings per second
MaxTime == 4              \* latest clock reading of a detector under test
MaxDetectorCalls == 6     \* calls made on a detector under test
ClockStep == 2            \* advance of the clock between two calls

DetectorDevices == {"A", "B", "C"}
NoDevice == "None"
NoDeadlock == [type |-> "None", involved_devices |-> <<>>, detection_time |-> 0,
               blocked_duration |-> 0, wait_chain |-> <<>>]

\* DeadlockDetector.__init__
NewDetector(timeout_threshold) ==
    [timeout_threshold |-> timeout_threshold,
     blocked_since |-> <<>>,
     waiting_for |-> <<>>,
     detected_deadlocks |-> {}]

\* dictionaries
Keys(dict) == {dict[i][1] : i \in 1..Len(dict)}
Get(dict, key, default) ==
    IF key \in Keys(dict)
    THEN dict[CHOOSE i \in 1..Len(dict) : dict[i][1] = key][2]
    ELSE default
Put(dict, key, value) ==
    IF key \in Keys(dict)
    THEN [i \in 1..Len(dict) |-> IF dict[i][1] = key THEN <<key, value>> ELSE dict[i]]
    ELSE Append(dict, <<key, value>>)
Del(dict, key) ==
    LET keep(pair) == pair[1] # key
    IN SelectSeq(dict, keep)

\* int(blocked_since) of the timeout key
IntPart(time) == time \div Resolution

\* list(s) and "for x in s" of a set: its elements in some order
RECURSIVE ListOf(_)
ListOf(S) ==
    IF S = {} THEN <<>>
    ELSE LET x == CHOOSE y \in S : TRUE
         IN <<x>> \o ListOf(S \ {x})

\* "_".join(sorted(cycle)): the devices of the list with their multiplicity
SortedKey(cycle) ==
    [d \in {cycle[i] : i \in 1..Len(cycle)} |->
        Cardinality({i \in 1..Len(cycle) : cycle[i] = d})]

\* DeadlockDetector.register_blocked
RegisterBlocked(det, device_id, now, waiting_for_device) ==
    LET d1 == IF device_id \notin Keys(det.blocked_since)
              THEN [det EXCEPT !.blocked_since = Put(@, device_id, now)]
              ELSE det
    IN IF waiting_for_device = NoDevice THEN d1
       ELSE [d1 EXCEPT !.waiting_for =
                Put(@, device_id, Get(@, device_id, {}) \cup {waiting_for_device})]

\* DeadlockDetector.register_unblocked
RegisterUnblocked(det, device_id) ==
    LET waiting == Del(det.waiting_for, device_id)
    IN [det EXCEPT !.blocked_since = Del(@, device_id),
                   !.waiting_for = [i \in 1..Len(waiting) |->
                                       <<waiting[i][1], waiting[i][2] \ {device_id}>>]]

RECURSIVE TimeoutFrom(_, _, _)
\* the loop of _check_timeout_deadlock, from the i-th blocked device on:
\* the detector it leaves and the DeadlockInfo it returns
TimeoutFrom(det, now, i) ==
    IF i > Len(det.blocked_since) THEN [det |-> det, info |-> NoDeadlock]
    ELSE LET device_id == det.blocked_since[i][1]
             blocked_since == det.blocked_since[i][2]
             blocked_duration == now - blocked_since
             deadlock_key == <<"timeout", device_id, IntPart(blocked_since)>>
         IN IF /\ blocked_duration > det.timeout_threshold
               /\ deadlock_key \notin det.detected_deadlocks
            THEN [det |-> [det EXCEPT !.detected_deadlocks = @ \cup {deadlock_key}],
                  info |-> [type |-> "timeout",
                            involved_devices |->
                                <<device_id>> \o ListOf(Get(det.waiting_for, device_id, {})),
                            detection_time |-> now,
                            blocked_duration |-> blocked_duration,
                            wait_chain |-> <<>>]]
            ELSE TimeoutFrom(det, now, i + 1)

CheckTimeoutDeadlock(det, now) == TimeoutFrom(det, now, 1)

\* path.index(device)
Index(path, device) == CHOOSE i \in 1..Len(path) :
                           /\ path[i] = device
                           /\ \A j \in 1..(i - 1) : path[j] # device

RECURSIVE FindCycleDfs(_, _, _)
RECURSIVE FindCycleOver(_, _, _, _)
\* the loop of find_cycle_dfs over the devices that device waits for, from
\* the i-th on: visited, rec_stack and path as the loop leaves them, and
\* the cycle it returns, if any
FindCycleOver(det, st, device, i) ==
    LET waiting == ListOf(Get(det.waiting_for, device, {}))
    IN IF i > Len(waiting)
       THEN [st EXCEPT !.path = SubSeq(@, 1, Len(@) - 1), !.rec_stack = @ \ {device}]
       ELSE IF waiting[i] \notin st.visited
            THEN LET r == FindCycleDfs(det, st, waiting[i])
                 IN IF r.cycle # <<>> THEN r
                    ELSE FindCycleOver(det, r, device, i + 1)
            ELSE IF waiting[i] \in st.rec_stack
                 THEN [st EXCEPT !.cycle =
                          SubSeq(st.path, Index(st.path, waiting[i]), Len(st.path))
                              \o <<waiting[i]>>]
                 ELSE FindCycleOver(det, st, device, i + 1)

\* find_cycle_dfs(device)
FindCycleDfs(det, st, device) ==
    FindCycleOver(det,
                  [st EXCEPT !.visited = @ \cup {device},
                             !.rec_stack = @ \cup {device},
                             !.path = Append(@, device)],
                  device, 1)

RECURSIVE CircularFrom(_, _, _, _)
\* the loop of _check_circular_wait_deadlock over the keys of the wait-for
\* graph, from the i-th key on; visited, rec_stack and path are those the
\* earlier calls of find_cycle_dfs left behind
CircularFrom(det, st, now, i) ==
    IF i > Len(det.waiting_for) THEN [det |-> det, info |-> NoDeadlock]
    ELSE LET device == det.waiting_for[i][1]
             r == FindCycleDfs(det, st, device)
             deadlock_key == <<"cycle", SortedKey(r.cycle)>>
         IN IF device \in st.visited THEN CircularFrom(det, st, now, i + 1)
            ELSE IF r.cycle # <<>> /\ deadlock_key \notin det.detected_deadlocks
            THEN [det |-> [det EXCEPT !.detected_deadlocks = @ \cup {deadlock_key}],
                  info |-> [type |-> "circular_wait",
                            involved_devices |->
                                ListOf({r.cycle[k] : k \in 1..Len(r.cycle)}),
                            detection_time |-> now,
                            blocked_duration |-> 0,
                            wait_chain |-> r.cycle]]
            ELSE CircularFrom(det, [r EXCEPT !.cycle = <<>>], now, i + 1)

\* DeadlockDetector._check_circular_wait_deadlock
CheckCircularWaitDeadlock(det, now) ==
    IF det.waiting_for = <<>> THEN [det |-> det, info |-> NoDeadlock]
    ELSE CircularFrom(det, [visited |-> {}, rec_stack |-> {}, path |-> <<>>,
                            cycle |-> <<>>], now, 1)

\* DeadlockDetector.check_deadlock
CheckDeadlock(det, now) ==
    LET timeout_deadlock == CheckTimeoutDeadlock(det, now)
    IN IF timeout_deadlock.info # NoDeadlock THEN timeout_deadlock
       ELSE CheckCircularWaitDeadlock(det, now)

\* DeadlockDetector.reset
Reset(det) ==
    [det EXCEPT !.blocked_since = <<>>, !.waiting_for = <<>>,
                !.detected_deadlocks = {}]

InitDetector ==
    /\ StartsAs([NewEngine(TestConfig) EXCEPT !.recovery_callback = FALSE])
    /\ twin = NewEngine(TestConfig)
    /\ failures = 0
    /\ wall = 0
    /\ ret = [op |-> "DeadlockDetector", arg |-> <<1>>, result |-> NoDeadlock, n |-> 0]
    /\ detector = NewDetector(1)
    /\ returned = <<>>

\* what a call on the detector leaves alone
DetectorFrame ==
    UNCHANGED <<cfg, heap, insertion_counter, registry, states, history, active,
                recovery_callback, completed, event_count, flow_executions,
                cancelled, paused, pause_requested_time, real_time_start,
                rng_calls, pc, wake_at, fired, exc, raised, failures, wall, twin>>

\* detector.register_blocked(device_id, now, waiting_for_device)
RegisterBlockedCall(device_id, now, waiting_for_device) ==
    /\ ret.n < MaxDetectorCalls
    /\ current_time' = now
    /\ detector' = RegisterBlocked(detector, device_id, now, waiting_for_device)
    /\ ret' = [op |-> "register_blocked", arg |-> <<>>, result |-> NoDeadlock,
               n |-> ret.n + 1]
    /\ UNCHANGED returned
    /\ DetectorFrame

\* detector.register_unblocked(device_id)
RegisterUnblockedCall(device_id) ==
    /\ ret.n < MaxDetectorCalls
    /\ detector' = RegisterUnblocked(detector, device_id)
    /\ ret' = [op |-> "register_unblocked", arg |-> <<>>, result |-> NoDeadlock,
               n |-> ret.n + 1]
    /\ UNCHANGED <<current_time, returned>>
    /\ DetectorFrame

\* detector.check_deadlock(now)
CheckDeadlockCall(now) ==
    /\ ret.n < MaxDetectorCalls
    /\ current_time' = now
    /\ LET out == CheckDeadlock(detector, now)
       IN /\ detector' = out.det
          /\ ret' = [op |-> "check_deadlock", arg |-> <<now>>, result |-> out.info,
                     n |-> ret.n + 1]
          /\ returned' = IF out.info = NoDeadlock THEN returned
                         ELSE Append(returned, out.info)
    /\ DetectorFrame

\* detector.reset()
ResetCall ==
    /\ ret.n < MaxDetectorCalls
    /\ detector' = Reset(detector)
    /\ ret' = [op |-> "reset", arg |-> <<>>, result |-> NoDeadlock, n |-> ret.n + 1]
    /\ returned' = <<>>
    /\ UNCHANGED current_time
    /\ DetectorFrame

\* the clock readings a call can be made at
Clock == {now \in {current_time, current_time + ClockStep} : now <= MaxTime}

NextDetector ==
    \/ \E device_id \in DetectorDevices, now \in Clock,
          waiting_for_device \in DetectorDevices \cup {NoDevice} :
           RegisterBlockedCall(device_id, now, waiting_for_device)
    \/ \E device_id \in DetectorDevices : RegisterUnblockedCall(device_id)
    \/ \E now \in Clock : CheckDeadlockCall(now)
    \/ ResetCall

SpecDetector == InitDetector /\ [][NextDetector]_vars


\* the time at which the device of a returned timeout had become blocked
C28_BlockedSince(info) == info.detection_time - info.blocked_duration

\* C28: check_deadlock(now) returns a Timeout DeadlockInfo exactly when some
\* registered device has been blocked for strictly more than
\* timeout_threshold and that occurrence (the device and the time it became
\* blocked) was not reported before; the info names such a device followed
\* by the devices it waits for; and registering a blocked device again
\* leaves its blocked_since as it was.
C28_TimeoutStrategy ==
    /\ [][(ret'.op = "check_deadlock" /\ ret'.n = ret.n + 1) =>
            LET now == ret'.arg[1]
                info == ret'.result
                reported(i) ==
                    \E k \in 1..Len(returned) :
                        /\ returned[k].type = "timeout"
                        /\ returned[k].involved_devices[1] = detector.blocked_since[i][1]
                        /\ C28_BlockedSince(returned[k]) = detector.blocked_since[i][2]
                due == {i \in 1..Len(detector.blocked_since) :
                           /\ now - detector.blocked_since[i][2] > detector.timeout_threshold
                           /\ ~reported(i)}
            IN /\ (due # {}) <=> (info.type = "timeout")
               /\ info.type = "timeout" =>
                      \E i \in due :
                          LET waits == Get(detector.waiting_for, detector.blocked_since[i][1], {})
                          IN /\ info.involved_devices[1] = detector.blocked_since[i][1]
                             /\ Len(info.involved_devices) = 1 + Cardinality(waits)
                             /\ {info.involved_devices[k] :
                                    k \in 2..Len(info.involved_devices)} = waits]_vars
    /\ [][(ret'.op = "register_blocked" /\ ret'.n = ret.n + 1) =>
            \A i \in 1..Len(detector.blocked_since) :
                detector'.blocked_since[i] = detector.blocked_since[i]]_vars

\* two returned DeadlockInfo objects are the same deadlock: a timeout of the
\* same device blocked since the same time, or a cycle of the same devices
C29_Same(a, b) ==
    /\ a.type = b.type
    /\ IF a.type = "timeout"
       THEN /\ a.involved_devices[1] = b.involved_devices[1]
            /\ C28_BlockedSince(a) = C28_BlockedSince(b)
       ELSE {a.wait_chain[k] : k \in 1..Len(a.wait_chain)}
                = {b.wait_chain[k] : k \in 1..Len(b.wait_chain)}

\* C29: without reset(), check_deadlock never returns the same deadlock
\* twice, whatever is registered and unregistered in between; and after
\* reset() the blocked set, the wait-for graph and the reported set are empty.
C29_Deduplication ==
    /\ \A i, j \in 1..Len(returned) : i < j => ~C29_Same(returned[i], returned[j])
    /\ ret.op = "reset" => /\ detector.blocked_since = <<>>
                           /\ detector.waiting_for = <<>>
                           /\ detector.detected_deadlocks = {}

\* C30: the wait_chain of a CircularWait DeadlockInfo starts and ends with
\* the same device, each of its consecutive pairs (a, b) is an edge 'a waits
\* for b' of the wait-for graph at the time of the check, and
\* involved_devices holds only devices of that chain.
C30_RealCycle ==
    (ret.op = "check_deadlock" /\ ret.result.type = "circular_wait") =>
        LET chain == ret.result.wait_chain
            involved == ret.result.involved_devices
        IN /\ Len(chain) >= 2
           /\ chain[1] = chain[Len(chain)]
           /\ \A k \in 1..(Len(chain) - 1) :
                  chain[k + 1] \in Get(detector.waiting_for, chain[k], {})
           /\ \A k \in 1..Len(involved) :
                  \E m \in 1..Len(chain) : chain[m] = involved[k]

(***************************************************************************)
(* EventScheduler.cancel, on the scheduler driven directly (SpecSched).    *)
(***************************************************************************)
\* the pending events have pairwise different ids and the registry holds
\* exactly these ids: the states a scheduler is in when no id is used twice
C31_UniqueIds ==
    /\ \A a \in heap, b \in heap : a.event_id = b.event_id => a = b
    /\ DOMAIN registry = {ev.event_id : ev \in heap}

\* C31: with unique event ids, cancel(id) of a pending event returns true,
\* removes exactly that event and leaves the other pending events, their
\* timestamps and insertion numbers and the clock as they were; cancel of an
\* id that is not pending returns false and changes nothing.  A removed event
\* is never invoked later: process_next fires only events that are pending,
\* and an event that enters the pending events carries an insertion number
\* no earlier event had.
C31_SchedulerCancel ==
    /\ [][(ret'.op = "cancel" /\ C31_UniqueIds) =>
            LET event_id == <<"evt", ret'.arg[1], 0>>
            IN IF \E ev \in heap : ev.event_id = event_id
               THEN /\ ret'.result = "True"
                    /\ \E ev \in heap : /\ ev.event_id = event_id
                                        /\ heap' = heap \ {ev}
                    /\ DOMAIN registry' = DOMAIN registry \ {event_id}
                    /\ \A x \in DOMAIN registry' : registry'[x] = registry[x]
                    /\ UNCHANGED <<current_time, insertion_counter>>
               ELSE /\ ret'.result = "False"
                    /\ UNCHANGED <<heap, registry, current_time,
                                   insertion_counter>>]_vars
    /\ [][(ret'.op = "process_next" /\ heap # {}) => fired' \in heap]_vars
    /\ [][/\ insertion_counter' >= insertion_counter
          /\ \A ev \in heap' \ heap :
                 ev.insertion_order >= insertion_counter]_vars
    /\ [](\A ev \in heap : ev.insertion_order < insertion_counter)

\* a pending event was cancelled after the clock had advanced, and another
\* event is still pending
C31_Witness ==
    /\ ret.op = "cancel"
    /\ ret.result = "True"
    /\ current_time > 0
    /\ heap # {}
    /\ <<"evt", ret.arg[1], 0>> \notin {ev.event_id : ev \in heap}
    /\ C31_UniqueIds

(***************************************************************************)
(* The engine and the deadlock detector.                                   *)
(***************************************************************************)
\* the devices that have an outgoing wait-for edge in the engine's detector
C32_Waiting ==
    IF detector = NoDetector THEN {} ELSE Keys(detector.waiting_for)

\* C32: in an engine run the devices with an outgoing wait-for edge in the
\* deadlock detector are at every point exactly the devices in state Blocked;
\* stated for the runs of the backpressure example, where A is moved to
\* Blocked because B lacks capacity.
C32_WaitForConsistency ==
    cfg \in BackpressureScenarios
        => C32_Waiting = {d \in DOMAIN states : states[d] = "Blocked"}

(***************************************************************************)
(* Completion of a flow and the start of its dependents (Spec).            *)
(***************************************************************************)
\* C33: when a flow's completion event fires, afterwards the flow id is in
\* neither the source's nor the destination's active-flow set and the flow
\* is completed in the flow controller; the source device goes to Idle by
\* COMPLETE_PROCESSING if it was Processing, and otherwise it keeps its state
\* and no transition is recorded; no other device changes state.
C33_FlowCompletion ==
    [][(Processed /\ fired'.callback.kind = "complete_flow") =>
        LET flow_id == fired'.callback.arg
            flow == FlowConfig(cfg, flow_id)
            from_device == flow.from_device
        IN /\ flow_id \notin active'[from_device]
           /\ flow_id \notin active'[flow.to_device]
           /\ flow_id \in completed'
           /\ IF states[from_device] = "Processing"
              THEN /\ states'[from_device] = "Idle"
                   /\ history' = Append(history,
                          [device_id |-> from_device,
                           from_state |-> "Processing",
                           to_state |-> "Idle",
                           event |-> "COMPLETE_PROCESSING",
                           timestamp |-> fired'.timestamp])
              ELSE /\ states'[from_device] = states[from_device]
                   /\ history' = history
           /\ \A d \in Devices \ {from_device} : states'[d] = states[d]]_vars

\* a completion has just fired for a flow whose source device is Blocked, and
\* the device is still Blocked while the flow holds no capacity any more
C33_Witness ==
    /\ pc = "loop"
    /\ fired.callback.kind = "complete_flow"
    /\ fired.callback.arg \in completed
    /\ states[FlowConfig(cfg, fired.callback.arg).from_device] = "Blocked"
    /\ \A d \in Devices : fired.callback.arg \notin active[d]
    /\ failures = 0

\* the start attempts a step has scheduled for the flow
C34_Triggered(flow_id) ==
    {ev \in heap' \ heap : /\ ev.callback.kind = "execute_flow"
                           /\ ev.callback.arg = flow_id}

\* C34: when flow X completes at time t, every flow Y that lists X as a
\* dependency and is not completed gets exactly one start attempt scheduled
\* at time t if all of Y's dependencies are now completed, and none if one of
\* them is still incomplete; the new attempt comes after every event already
\* pending at t; the completion schedules an attempt for no other flow.
C34_DependencyTrigger ==
    [][(Processed /\ fired'.callback.kind = "complete_flow") =>
        \A i \in 1..Len(cfg.flows) :
            LET flow == cfg.flows[i]
                attempts == C34_Triggered(flow.flow_id)
            IN IF /\ fired'.callback.arg \in flow.dependencies
                  /\ flow.flow_id \notin completed'
                  /\ flow.dependencies \subseteq completed'
               THEN /\ Cardinality(attempts) = 1
                    /\ \A ev \in attempts :
                           /\ ev.timestamp = fired'.timestamp
                           /\ ev.timestamp = current_time'
                           /\ \A old \in heap \ {fired'} :
                                  old.timestamp = ev.timestamp
                                      => old.insertion_order < ev.insertion_order
               ELSE attempts = {}]_vars

\* a completion has just triggered one of its two dependents at the current
\* time, behind an event already pending at that time, and not the other
\* dependent, which has another dependency still incomplete
C34_Witness ==
    /\ pc = "loop"
    /\ fired.callback.kind = "complete_flow"
    /\ \E i \in 1..Len(cfg.flows), k \in 1..Len(cfg.flows) :
           LET y == cfg.flows[i]
               z == cfg.flows[k]
           IN /\ fired.callback.arg \in y.dependencies
              /\ fired.callback.arg \in z.dependencies
              /\ \E ev \in Pending("execute_flow", y.flow_id) :
                     /\ ev.event_id = <<"flow_dep", y.flow_id, current_time>>
                     /\ ev.insertion_order = insertion_counter - 1
                     /\ \E old \in heap : /\ old.timestamp = current_time
                                          /\ old.insertion_order < ev.insertion_order
              /\ ~(z.dependencies \subseteq completed)
              /\ \A ev \in Pending("execute_flow", z.flow_id) :
                     ev.event_id[1] # "flow_dep"

(***************************************************************************)
(* The state history of an engine run (Spec).                              *)
(***************************************************************************)
\* get_history(device_id)
C35_HistoryOf(d) == SelectSeq(history, LAMBDA h : h.device_id = d)

\* C35: the history only grows, by records appended at its end; every record
\* is an applied row of the transition table; its timestamps are
\* non-decreasing; for each device the from_state of each record is the
\* to_state of the device's previous record (Idle for its first record); and
\* the to_state of a device's last record (Idle if it has none) is the
\* final_state reported for it, with state_changes the number of its records.
C35_StateHistory ==
    /\ [][/\ Len(history') >= Len(history)
          /\ SubSeq(history', 1, Len(history)) = history]_vars
    /\ [](\A k \in 1..Len(history) :
              /\ history[k].event \in DOMAIN Transitions[history[k].from_state]
              /\ history[k].to_state
                     = Transitions[history[k].from_state][history[k].event]
              /\ history[k].timestamp <= current_time
              /\ k > 1 => history[k - 1].timestamp <= history[k].timestamp)
    /\ [](\A d \in DeviceIds(cfg) :
              LET records == C35_HistoryOf(d)
                  reported == Output(Eng).device_states[d]
              IN /\ \A k \in 1..Len(records) :
                        records[k].from_state
                            = IF k = 1 THEN "Idle" ELSE records[k - 1].to_state
                 /\ reported.final_state
                        = IF records = <<>> THEN "Idle"
                          ELSE records[Len(records)].to_state
                 /\ reported.state_changes = Len(records))

\* a finished run whose history holds records of both devices at different
\* times, among them a failure submitted from outside and a blocking
C35_Witness ==
    /\ pc = "done"
    /\ Len(C35_HistoryOf("D1")) >= 3
    /\ Len(C35_HistoryOf("D2")) >= 1
    /\ \E k \in 1..Len(history) : history[k].to_state = "Blocked"
    /\ \E k \in 1..Len(history) : history[k].event = "FAILURE_DETECTED"
    /\ history[1].timestamp < history[Len(history)].timestamp

(***************************************************************************)
(* The devices at the start of a run (SpecScenario).                       *)
(***************************************************************************)
\* the initial_state a device dictionary asks for
C36_Configured(device) ==
    IF "initial_state" \in DOMAIN device THEN device.initial_state ELSE "Idle"

\* C36: before the first event of a run is processed, every device is in the
\* state named by its configured initial_state (Idle when the field is
\* absent).
C36_InitialState ==
    (pc # "raised" /\ event_count = 0)
        => \A i \in 1..Len(cfg.devices) :
               states[cfg.devices[i].id] = C36_Configured(cfg.devices[i])

(***************************************************************************)
(* The life of a flow in an engine run (Spec).                             *)
(***************************************************************************)
\* C37: at most one completion event of a flow is pending at any time, and
\* the completion handler runs at most once per flow: no completion event
\* fires for a flow that is already completed.
C37_SingleExecution ==
    /\ [](\A f \in FlowIds : Cardinality(Pending("complete_flow", f)) <= 1)
    /\ [][(Processed /\ fired'.callback.kind = "complete_flow")
              => fired'.callback.arg \notin completed]_vars

\* a flow that has acquired capacity on its source device and has a
\* completion event pending
C38_InFlight(flow) ==
    /\ flow.flow_id \in active[flow.from_device]
    /\ Pending("complete_flow", flow.flow_id) # {}

\* C38: in every state of a run, a device that is the source of a flow in
\* flight is Processing, Blocked or Failed, never Idle, whatever its capacity;
\* stated for the runs in which no device failure is submitted from outside.
C38_StateAgreesWithWorkload ==
    failures = 0 =>
        \A i \in 1..Len(cfg.flows) :
            C38_InFlight(cfg.flows[i])
                => states[cfg.flows[i].from_device] # "Idle"

(***************************************************************************)
(* Progress and termination of a run (SpecScenario).                       *)
(***************************************************************************)
\* the time the flows from the i-th on need when they run one after the
\* other, each found free one retry delay late
RECURSIVE C39_SerialTime(_, _)
C39_SerialTime(c, i) ==
    IF i > Len(c.flows) THEN 0
    ELSE ProcessTimeRange(c.flows[i])[2] + FLOW_RETRY_DELAY_SECONDS
             + StartOffset(c.flows[i]) + C39_SerialTime(c, i + 1)

\* every gate a flow or a device requires is open, every flow has a process
\* time, and the duration covers the flows run one after the other
C39_LongEnough(c) ==
    /\ \A i \in 1..Len(c.flows) :
           /\ ProcessTimeRange(c.flows[i]) # <<>>
           /\ \A g \in c.flows[i].required_gates : g \in DOMAIN c.gates /\ c.gates[g]
    /\ \A i \in 1..Len(c.devices) :
           \A g \in c.devices[i].required_gates : g \in DOMAIN c.gates /\ c.gates[g]
    /\ C39_SerialTime(c, 1) <= c.duration

\* C39: when a run of a validated configuration with open gates and a
\* duration that is long enough has ended, every flow is completed, also a
\* flow whose from_device and to_device are the same device.
C39_Progress ==
    (pc = "done" /\ C39_LongEnough(cfg))
        => \A i \in 1..Len(cfg.flows) : cfg.flows[i].flow_id \in completed

\* A run that is neither paused nor cancelled nor disturbed by failures, of
\* the configurations of Configs with the longest duration, one seed and a
\* second device of capacity 1: accelerated and paced, D1 of capacity 1 or 2,
\* every flow set (contention, dependency chain, self-flow, closed gate).
InitRun ==
    /\ \E c \in {x \in Configs : /\ x.duration = MaxDuration
                                  /\ x.random_seed = 1
                                  /\ x.devices[2].capacity = 1} :
           StartsAs(NewEngine(c)) /\ twin = NewEngine(c)
    /\ failures = 0
    /\ wall = 0
    /\ detector = NoDetector
    /\ returned = <<>>
    /\ ret = NoCall

\* the thread inside run() is never stopped for good: it is scheduled again
\* and its sleeps return
SpecRun == InitRun /\ [][NextScenario]_vars /\ WF_vars(NextScenario)

\* C40: a run without pause reaches one of its exit conditions: the loop is
\* left with no event pending or with every pending event beyond the
\* duration, also when flows are retried for ever and when completions
\* schedule dependents at the current time.
C40_Termination ==
    <>(/\ pc = "done"
       /\ \A ev \in heap : ev.timestamp > cfg.duration)

\* a run has ended by its duration after a chain of dependents was started
\* by completions, while the retry of a flow behind a closed gate is still
\* pending
C40_Witness ==
    /\ pc = "done"
    /\ completed # {}
    /\ event_count > Len(cfg.flows)
    /\ \E ev \in heap : /\ ev.event_id[1] = "flow_gate_retry"
                        /\ ev.timestamp > cfg.duration
    /\ \E k \in 1..Len(history) : history[k].timestamp > 0

====
